---- MODULE Spec2Model ----
(***************************************************************************)
(* Real-time session coordination layer of the chat backend: the presence  *)
(* registry, the message delivery pipeline and the call session manager    *)
(* of socket/socketHandler.js (src/unnamed/part_001), the call controller  *)
(* (src/README.md, callController.js) and the Call model                   *)
(* (src/unnamed/part_000).                                                 *)
(*                                                                         *)
(* Granularity.  Node runs every handler to its next `await` without       *)
(* interruption.  Each action below is one such run: it applies the        *)
(* persistence operation the handler was awaiting and then executes the    *)
(* synchronous code that follows it, up to the issue of the next awaited   *)
(* operation.  A trailing awaited write with no code after it is kept in   *)
(* pendingWrites and applied by ApplyWrite.                                *)
(***************************************************************************)
EXTENDS Naturals, Integers, Sequences, FiniteSets, Bags, TLC

None == "none"

\* ------------------------------------------------------------------ bounds
Users == {"A", "B", "C", "D"}
Sockets == {"sA1", "sA2", "sB1", "sC1", "sD1"}
CallIds == {"k1", "k2"}
Convs == {"g1", "p1"}
MsgIds == {"m1", "m2"}

\* socket.user._id: the identity socketAuth resolved for the connection
userOf(s) ==
    CASE s \in {"sA1", "sA2"} -> "A"
      [] s = "sB1" -> "B"
      [] s = "sC1" -> "C"
      [] OTHER -> "D"

\* client events and connection changes a run may contain
MaxOps == 5
\* client events of a run of the call controller
MaxCallOps == 4
\* client events of a run of the message pipeline
MaxMsgOps == 4
\* the clock's last value
MaxTime == 2
\* requests of users in a run of the membership specification
MaxGroupOps == 4
\* client events and requests in a run of the call-session specification
MaxSessionOps == 4
\* client events and connection changes in a run of the cleanup specification
MaxCleanupOps == 4
\* client events and connection changes in a run of the relay specification
MaxRelayOps == 3
\* client events and connection changes in a run of the delivery specification
MaxDeliverOps == 4
\* client events and connection changes in a run of the fan-out specification
MaxFanoutOps == 4
\* client events and connection changes in a run of the busy-check specification
MaxBusyOps == 4
\* client events and requests in a run of the room specification
MaxRoomOps == 4

VARIABLES
    sock,          \* socket -> "new" | "open" | "closed"
    connPc,        \* socket -> position of its io.on('connection') handler
    onlineUsers,   \* userId -> socketId (None: no entry)
    userSockets,   \* the socketIds that have an entry in userSockets
    latest,        \* userId -> the socket that connected last (history)
    joined,        \* socket -> conversation rooms it has joined
    dc,            \* socket -> state of its 'disconnect' handler
    activeCalls,   \* Seq of [callId, participants, type], in insertion order
    pendingWrites, \* bag of the Call.findByIdAndUpdate operations issued, not yet applied
    dbUser,        \* User collection: userId -> [isOnline, socketId]
    dbCalls,       \* Call collection: callId -> record, or Null
    dbConv,        \* Conversation collection
    dbMsgs,        \* Message collection: msgId -> record, Null or Gone
    task,          \* socket -> its suspended send-message / messages-read handler
    rest,          \* userId -> their suspended HTTP request
    resp,          \* userId -> status code of their last HTTP response
    inbox,         \* socket -> bag of the events delivered to it
    now,           \* the clock (new Date())
    ops            \* client events so far

vars == <<sock, connPc, onlineUsers, userSockets, latest, joined, dc, activeCalls,
          pendingWrites, dbUser, dbCalls, dbConv, dbMsgs, task, rest, resp, inbox,
          now, ops>>

presenceVars == <<sock, connPc, onlineUsers, userSockets, latest, joined, dc>>
msgVars == <<dbConv, dbMsgs, task>>
restVars == <<rest, resp>>

Null == [nil |-> TRUE]

\* a message that Message.deleteMany removed: its id is not given out again
Gone == [nil |-> TRUE, gone |-> TRUE]

\* a stored message
IsMsg(d) == d # Null /\ d # Gone
Idle == [pc |-> "idle"]

\* ----------------------------------------------------------------- helpers

\* an outbound event
Ev(type, from, call, x) ==
    [type |-> type, from |-> from, call |-> call, x |-> x, n |-> 0]

\* an outbound event that carries a number
EvN(type, from, call, x, n) ==
    [type |-> type, from |-> from, call |-> call, x |-> x, n |-> n]

\* io.to(socketId).emit(e): the room of a socket id holds that socket while it
\* is connected, and nothing otherwise
EmitTo(ib, s, e) ==
    IF s \in Sockets /\ sock[s] = "open"
    THEN [ib EXCEPT ![s] = @ (+) SetToBag({e})]
    ELSE ib

\* the same, to each socket of a set
EmitAll(ib, S, e) ==
    [s \in Sockets |->
        IF s \in S /\ sock[s] = "open" THEN ib[s] (+) SetToBag({e}) ELSE ib[s]]

\* the entries of a participants array that are user p
Occurs(seq, p) == Len(SelectSeq(seq, LAMBDA q : q = p))

\* io.to(socketId).emit(e) once for each entry of a list of socket ids, an
\* entry without a socket id skipped
EmitEach(ib, ss, e) ==
    [s \in Sockets |->
        IF sock[s] = "open" /\ Occurs(ss, s) > 0
        THEN ib[s] (+) [x \in {e} |-> Occurs(ss, s)]
        ELSE ib[s]]

Count(s, e) == CopiesIn(e, inbox[s])

\* getUserSocketId / onlineUsers.get
lookup(u) == onlineUsers[u]

\* positions of activeCalls whose entry has the id / holds the user
IndexOf(calls, c) == {i \in 1..Len(calls) : calls[i].callId = c}
HasCall(calls, c) == IndexOf(calls, c) # {}
InSession(calls, u) == {i \in 1..Len(calls) : u \in calls[i].participants}

RemoveAt(seq, i) == [j \in 1..(Len(seq) - 1) |-> IF j < i THEN seq[j] ELSE seq[j + 1]]

\* activeCalls.delete(callId)
DeleteCall(calls, c) ==
    IF HasCall(calls, c) THEN RemoveAt(calls, CHOOSE i \in IndexOf(calls, c) : TRUE)
    ELSE calls

\* a Map iterator suspended in a for-of loop keeps its place when an entry
\* before it is deleted: the positions after the deleted one shift down
ShiftCursors(d, calls, c) ==
    IF ~HasCall(calls, c) THEN d
    ELSE LET i == CHOOSE j \in IndexOf(calls, c) : TRUE IN
         [s \in Sockets |->
            IF d[s].pc = "await_call" /\ d[s].cursor >= i
            THEN [d[s] EXCEPT !.cursor = @ - 1]
            ELSE d[s]]


Min(S) == CHOOSE i \in S : \A j \in S : i <= j

\* a Date field that is not set
NoTime == 0 - 1

\* clock values per second: the clock counts half seconds where the code
\* counts milliseconds
Second == 2

\* ------------------------------------------------------------ Call model

\* Call.findByIdAndUpdate(callId, {status[, startedAt][, endedAt]}): sets the
\* given fields of the stored document, if there is one; runs no save hook
ApplyUpdate(db, w) ==
    IF db[w.call] = Null THEN db
    ELSE [db EXCEPT ![w.call] =
            [@ EXCEPT !.status = w.status,
                      !.startedAt = IF w.startedAt # NoTime THEN w.startedAt ELSE @,
                      !.endedAt = IF w.endedAt # NoTime THEN w.endedAt ELSE @]]

Update(c, status, startedAt, endedAt) ==
    [call |-> c, status |-> status, startedAt |-> startedAt, endedAt |-> endedAt]

\* ------------------------------------------------------------------- Init

\* the conversations the store holds: the group of all users and the private
\* conversation of A and B, with no message yet
InitConv ==
    [k \in Convs |->
        [participants |-> IF k = "g1" THEN Users ELSE {"A", "B"},
         order |-> IF k = "g1" THEN <<"A", "B", "C", "D">> ELSE <<"A", "B">>,
         groupAdmin |-> IF k = "g1" THEN {"A"} ELSE {},
         createdBy |-> IF k = "g1" THEN "A" ELSE None,
         type |-> IF k = "g1" THEN "group" ELSE "private",
         unreadCount |-> <<>>, lastMessage |-> None, v |-> 0]]

Init ==
    /\ sock = [s \in Sockets |-> "new"]
    /\ connPc = [s \in Sockets |-> "none"]
    /\ onlineUsers = [u \in Users |-> None]
    /\ userSockets = {}
    /\ latest = [u \in Users |-> None]
    /\ joined = [s \in Sockets |-> {}]
    /\ dc = [s \in Sockets |-> Idle]
    /\ activeCalls = <<>>
    /\ pendingWrites = EmptyBag
    /\ dbUser = [u \in Users |-> [isOnline |-> FALSE, socketId |-> None]]
    /\ dbCalls = [c \in CallIds |-> Null]
    /\ dbConv = InitConv
    /\ dbMsgs = [m \in MsgIds |-> Null]
    /\ task = [s \in Sockets |-> Idle]
    /\ rest = [u \in Users |-> Idle]
    /\ resp = [u \in Users |-> None]
    /\ inbox = [s \in Sockets |-> EmptyBag]
    /\ now = 0
    /\ ops = 0

\* ------------------------------------------------- io.on('connection')

\* onlineUsers.set(userId, socket.id)
Register(reg, u, s) == [reg EXCEPT ![u] = s]

\* the handler up to its first await: the maps are set, User update is issued
ConnectStart(s) ==
    /\ sock[s] = "new"
    /\ sock' = [sock EXCEPT ![s] = "open"]
    /\ onlineUsers' = Register(onlineUsers, userOf(s), s)
    /\ userSockets' = userSockets \cup {s}
    /\ latest' = [latest EXCEPT ![userOf(s)] = s]
    /\ connPc' = [connPc EXCEPT ![s] = "await_user"]
    /\ ops' = ops + 1
    /\ UNCHANGED <<joined, dc, activeCalls, pendingWrites, dbUser, dbCalls, msgVars,
                   restVars, inbox, now>>

\* socket.broadcast.emit(e): every connected socket but s
Broadcast(ib, s, e) == EmitAll(ib, Sockets \ {s}, e)

\* User.findByIdAndUpdate(userId, {isOnline: true, socketId}) applied; the
\* user room is joined, user-online is broadcast and Conversation.find is
\* issued
ConnectUserUpdated(s) ==
    /\ connPc[s] = "await_user"
    /\ dbUser' = [dbUser EXCEPT ![userOf(s)] = [isOnline |-> TRUE, socketId |-> s]]
    /\ inbox' = Broadcast(inbox, s, Ev("user-online", userOf(s), None, None))
    /\ connPc' = [connPc EXCEPT ![s] = "await_convs"]
    /\ UNCHANGED <<sock, onlineUsers, userSockets, latest, joined, dc, activeCalls,
                   pendingWrites, dbCalls, msgVars, restVars, now, ops>>

\* User.findByIdAndUpdate of the connection handler rejects: the handler has
\* no try/catch, its promise rejects and nothing after the await runs (the
\* rejection goes to process.on('unhandledRejection') of server.js, which
\* stops the server from accepting connections)
ConnectUserFailed(s) ==
    /\ connPc[s] = "await_user"
    /\ connPc' = [connPc EXCEPT ![s] = "failed"]
    /\ UNCHANGED <<sock, onlineUsers, userSockets, latest, joined, dc, activeCalls,
                   pendingWrites, dbUser, dbCalls, msgVars, restVars, inbox, now, ops>>

\* Conversation.find({participants: userId}) answered: the conversation rooms
\* are joined and the socket's event handlers are installed.  socket.join on
\* a socket that has disconnected joins nothing.
ConnectConvsLoaded(s) ==
    /\ connPc[s] = "await_convs"
    /\ joined' = [joined EXCEPT ![s] =
                    IF sock[s] = "open"
                    THEN @ \cup {k \in Convs : dbConv[k] # Null
                                              /\ userOf(s) \in dbConv[k].participants}
                    ELSE @]
    /\ connPc' = [connPc EXCEPT ![s] = "ready"]
    /\ UNCHANGED <<sock, onlineUsers, userSockets, latest, dc, activeCalls,
                   pendingWrites, dbUser, dbCalls, msgVars, restVars, inbox, now, ops>>

\* a socket with its event handlers installed, able to deliver client events
Ready(s) == sock[s] = "open" /\ connPc[s] = "ready"

\* ------------------------------------------------ socket.on('disconnect')

\* onlineUsers.delete(userId)
Deregister(reg, u, s) == [reg EXCEPT ![u] = None]

\* one turn of the loop over activeCalls.entries() of socket s, its iterator
\* standing after position k: the next entry holding the user is announced to
\* its other participants, deleted, and its Call update is issued; with no
\* such entry left the loop ends and the User update is issued
CleanupStep(s, k, reg) ==
    LET u == userOf(s)
        hits == {i \in InSession(activeCalls, u) : i > k}
    IN  IF hits # {}
        THEN LET i == Min(hits)
                 e == activeCalls[i]
                 targets == {reg[p] : p \in e.participants \ {u}} \ {None}
             IN  /\ inbox' = EmitAll(inbox, targets \ {s},
                                     Ev("call-ended", u, e.callId, "disconnect"))
                 /\ activeCalls' = RemoveAt(activeCalls, i)
                 /\ dc' = [ShiftCursors(dc, activeCalls, e.callId) EXCEPT ![s] =
                             [pc |-> "await_call", callId |-> e.callId,
                              endedAt |-> now, cursor |-> i - 1]]
        ELSE /\ inbox' = inbox
             /\ activeCalls' = activeCalls
             /\ dc' = [dc EXCEPT ![s] = [pc |-> "await_user", lastSeen |-> now]]

\* the connection drops.  With the handlers installed the 'disconnect' handler
\* runs to its first await; before that no listener exists and the event is lost
Drop(s) ==
    /\ sock[s] = "open"
    /\ sock' = [sock EXCEPT ![s] = "closed"]
    /\ joined' = [joined EXCEPT ![s] = {}]
    /\ ops' = ops + 1
    /\ IF connPc[s] = "ready"
       THEN /\ onlineUsers' = Deregister(onlineUsers, userOf(s), s)
            /\ userSockets' = userSockets \ {s}
            /\ CleanupStep(s, 0, onlineUsers')
       ELSE UNCHANGED <<onlineUsers, userSockets, inbox, activeCalls, dc>>
    /\ UNCHANGED <<connPc, latest, pendingWrites, dbUser, dbCalls, msgVars, restVars, now>>

\* Call.findByIdAndUpdate(callId, {status: 'ended', endedAt}) applied; the
\* loop goes on
DisconnectCallUpdated(s) ==
    /\ dc[s].pc = "await_call"
    /\ dbCalls' = ApplyUpdate(dbCalls, Update(dc[s].callId, "ended", NoTime, dc[s].endedAt))
    /\ CleanupStep(s, dc[s].cursor, onlineUsers)
    /\ UNCHANGED <<sock, connPc, onlineUsers, userSockets, latest, joined, pendingWrites,
                   dbUser, msgVars, restVars, now, ops>>

\* Call.findByIdAndUpdate of the loop rejects: the catch logs the error and
\* the loop goes on
DisconnectCallFailed(s) ==
    /\ dc[s].pc = "await_call"
    /\ CleanupStep(s, dc[s].cursor, onlineUsers)
    /\ UNCHANGED <<sock, connPc, onlineUsers, userSockets, latest, joined, pendingWrites,
                   dbUser, dbCalls, msgVars, restVars, now, ops>>

\* User.findByIdAndUpdate(userId, {isOnline: false, lastSeen, socketId: ''})
\* applied; user-offline is broadcast
DisconnectUserUpdated(s) ==
    /\ dc[s].pc = "await_user"
    /\ dbUser' = [dbUser EXCEPT ![userOf(s)] = [isOnline |-> FALSE, socketId |-> None]]
    /\ inbox' = Broadcast(inbox, s, Ev("user-offline", userOf(s), None, None))
    /\ dc' = [dc EXCEPT ![s] = [pc |-> "done"]]
    /\ UNCHANGED <<sock, connPc, onlineUsers, userSockets, latest, joined, activeCalls,
                   pendingWrites, dbCalls, msgVars, restVars, now, ops>>

\* User.findByIdAndUpdate of the disconnect handler rejects: the await has no
\* try/catch, the handler ends there and the user stays stored as online
DisconnectUserFailed(s) ==
    /\ dc[s].pc = "await_user"
    /\ dc' = [dc EXCEPT ![s] = [pc |-> "failed"]]
    /\ UNCHANGED <<sock, connPc, onlineUsers, userSockets, latest, joined, activeCalls,
                   pendingWrites, dbUser, dbCalls, msgVars, restVars, inbox, now, ops>>

\* ------------------------------------------------------ authController

\* login: User.findOne answered.  Without a user or with a wrong password the
\* request ends 401; otherwise isOnline is set on the loaded document and its
\* save is issued (the path is written only when the loaded value was false)
LoginLoad(u, valid) ==
    /\ rest[u].pc = "idle"
    /\ ops' = ops + 1
    /\ IF valid
       THEN /\ rest' = [rest EXCEPT ![u] =
                         [pc |-> "loginsave", op |-> "login",
                          dirty |-> ~dbUser[u].isOnline]]
            /\ resp' = [resp EXCEPT ![u] = None]
       ELSE /\ rest' = rest
            /\ resp' = [resp EXCEPT ![u] = "401"]
    /\ UNCHANGED <<presenceVars, activeCalls, pendingWrites, dbUser, dbCalls, msgVars,
                   inbox, now>>

\* login: user.save() applied, the request ends 200
LoginSave(u) ==
    /\ rest[u].pc = "loginsave"
    /\ dbUser' = IF rest[u].dirty THEN [dbUser EXCEPT ![u].isOnline = TRUE] ELSE dbUser
    /\ rest' = [rest EXCEPT ![u] = Idle]
    /\ resp' = [resp EXCEPT ![u] = "200"]
    /\ UNCHANGED <<presenceVars, activeCalls, pendingWrites, dbCalls, msgVars, inbox,
                   now, ops>>

\* logout: User.findByIdAndUpdate(userId, {isOnline: false, lastSeen,
\* socketId: ''}) applied, the request ends 200; the registry is not touched
Logout(u) ==
    /\ rest[u].pc = "idle"
    /\ ops' = ops + 1
    /\ dbUser' = [dbUser EXCEPT ![u] = [isOnline |-> FALSE, socketId |-> None]]
    /\ resp' = [resp EXCEPT ![u] = "200"]
    /\ UNCHANGED <<presenceVars, activeCalls, pendingWrites, dbCalls, msgVars, rest,
                   inbox, now>>

\* ------------------------------------------------- signaling events

\* activeCalls.get(callId).participants.add(user), after the entry of callId
\* was created with the caller when the map had none
StoreActiveCall(calls, c, caller, callee) ==
    LET withEntry == IF HasCall(calls, c) THEN calls
                     ELSE Append(calls, [callId |-> c, participants |-> {caller}])
    IN  [i \in 1..Len(withEntry) |->
            IF withEntry[i].callId = c
            THEN [withEntry[i] EXCEPT !.participants = @ \cup {callee}]
            ELSE withEntry[i]]

\* a busy check that finds nobody busy
IsBusyNever(calls, callee) == FALSE

\* the busy check of call-user: some active session holds the callee
IsBusy(calls, callee) == InSession(calls, callee) # {}

\* socket.on('call-user')
CallUser(s, callee, c) ==
    /\ Ready(s)
    /\ callee # userOf(s)
    /\ ops' = ops + 1
    /\ LET target == lookup(callee) IN
       IF target # None
       THEN IF IsBusy(activeCalls, callee)
            THEN /\ inbox' = EmitTo(inbox, s, Ev("user-busy", callee, c, None))
                 /\ UNCHANGED <<activeCalls, pendingWrites>>
            ELSE /\ activeCalls' = StoreActiveCall(activeCalls, c, userOf(s), callee)
                 /\ inbox' = EmitTo(inbox, target,
                                    Ev("incoming-call-signal", userOf(s), c, None))
                 /\ UNCHANGED pendingWrites
       ELSE /\ inbox' = EmitTo(inbox, s, Ev("user-unavailable", callee, None, None))
            /\ pendingWrites' = pendingWrites (+) SetToBag({Update(c, "missed", NoTime, NoTime)})
            /\ UNCHANGED activeCalls
    /\ UNCHANGED <<presenceVars, dbUser, dbCalls, msgVars, restVars, now>>

\* socket.on('answer-call')
AnswerCall(s, to, c) ==
    /\ Ready(s)
    /\ to # userOf(s)
    /\ ops' = ops + 1
    /\ IF lookup(to) # None
       THEN /\ inbox' = EmitTo(inbox, lookup(to), Ev("call-accepted", userOf(s), c, None))
            /\ pendingWrites' = pendingWrites (+) SetToBag({Update(c, "ongoing", now, NoTime)})
       ELSE UNCHANGED <<inbox, pendingWrites>>
    /\ UNCHANGED <<presenceVars, activeCalls, dbUser, dbCalls, msgVars, restVars, now>>

\* the relay of reject-call, end-call and user-busy to the target, if present
RelayTo(ib, to, e) == IF lookup(to) # None THEN EmitTo(ib, lookup(to), e) ELSE ib

\* socket.on('reject-call')
RejectCallSignal(s, to, c) ==
    /\ Ready(s)
    /\ to # userOf(s)
    /\ ops' = ops + 1
    /\ inbox' = RelayTo(inbox, to, Ev("call-rejected", userOf(s), c, None))
    /\ activeCalls' = DeleteCall(activeCalls, c)
    /\ dc' = ShiftCursors(dc, activeCalls, c)
    /\ pendingWrites' = pendingWrites (+) SetToBag({Update(c, "rejected", NoTime, NoTime)})
    /\ UNCHANGED <<sock, connPc, onlineUsers, userSockets, latest, joined, dbUser,
                   dbCalls, msgVars, restVars, now>>

\* socket.on('end-call')
EndCallSignal(s, to, c) ==
    /\ Ready(s)
    /\ to # userOf(s)
    /\ ops' = ops + 1
    /\ inbox' = RelayTo(inbox, to, Ev("call-ended", userOf(s), c, None))
    /\ activeCalls' = DeleteCall(activeCalls, c)
    /\ dc' = ShiftCursors(dc, activeCalls, c)
    /\ UNCHANGED <<sock, connPc, onlineUsers, userSockets, latest, joined, pendingWrites,
                   dbUser, dbCalls, msgVars, restVars, now>>

\* socket.on('user-busy')
UserBusySignal(s, to, c) ==
    /\ Ready(s)
    /\ to # userOf(s)
    /\ ops' = ops + 1
    /\ inbox' = RelayTo(inbox, to, Ev("user-busy", userOf(s), c, None))
    /\ activeCalls' = DeleteCall(activeCalls, c)
    /\ dc' = ShiftCursors(dc, activeCalls, c)
    /\ UNCHANGED <<sock, connPc, onlineUsers, userSockets, latest, joined, pendingWrites,
                   dbUser, dbCalls, msgVars, restVars, now>>

\* socket.on('ice-candidate'), socket.on('group-call-signal') and
\* socket.on('group-call-return-signal'): the payload goes to the target's
\* socket under the outbound name, if the registry has one
OutboundName(event) ==
    IF event = "group-call-return-signal" THEN "group-call-signal-returned" ELSE event

PlainRelays == {"ice-candidate", "group-call-signal", "group-call-return-signal"}

PlainRelay(s, to, event) ==
    /\ Ready(s)
    /\ to # userOf(s)
    /\ ops' = ops + 1
    /\ inbox' = RelayTo(inbox, to, Ev(OutboundName(event), userOf(s), None, None))
    /\ UNCHANGED <<presenceVars, activeCalls, pendingWrites, dbUser, dbCalls, msgVars,
                   restVars, now>>

\* an issued Call.findByIdAndUpdate reaches the store
ApplyWrite(w) ==
    /\ w \in BagToSet(pendingWrites)
    /\ dbCalls' = ApplyUpdate(dbCalls, w)
    /\ pendingWrites' = pendingWrites (-) SetToBag({w})
    /\ UNCHANGED <<presenceVars, activeCalls, dbUser, msgVars, restVars, inbox, now, ops>>

\* time passes
Tick ==
    /\ now < MaxTime
    /\ now' = now + 1
    /\ UNCHANGED <<presenceVars, activeCalls, pendingWrites, dbUser, dbCalls, msgVars,
                   restVars, inbox, ops>>

\* --------------------------------------------------- call controller

\* a participant entry of the Call schema, at its defaults
\* {user: p, status: 'pending'}: an entry of a new call's participants
Pending(p) == [user |-> p, status |-> "pending", joinedAt |-> NoTime, leftAt |-> NoTime]

\* the users the entries of a call's participants name
PartUsers(doc) == {doc.parts[i].user : i \in DOMAIN doc.parts}

\* call.participants.findIndex(p => p.user._id equals u): the first entry
\* of u
participantIndex(doc, u) ==
    CHOOSE i \in DOMAIN doc.parts :
        doc.parts[i].user = u /\ \A j \in 1..(i - 1) : doc.parts[j].user # u

\* the stored socket ids of the users of a list
SocketIds(users) == [i \in DOMAIN users |-> dbUser[users[i]].socketId]

\* callSchema.pre('save'): the duration of a document about to be saved
PreSave(doc) ==
    IF doc.startedAt # NoTime /\ doc.endedAt # NoTime
    THEN [doc EXCEPT !.duration = (doc.endedAt - doc.startedAt) \div Second]
    ELSE doc

\* a client has named the id: an update of it is issued, or a session
\* entry or a cleanup loop holds it
Named(c) ==
    \/ \E w \in BagToSet(pendingWrites) : w.call = c
    \/ HasCall(activeCalls, c)
    \/ \E s \in Sockets : dc[s].pc = "await_call" /\ dc[s].callId = c

\* the ids Call.create can give a new document: the ObjectId is generated
\* with the document, so no client has named it before
FreshCalls == {c \in CallIds : dbCalls[c] = Null /\ ~Named(c)}

\* user ids that name no stored user
NoUsers == {"u0"}

\* the values of `type` initiateCall accepts
CallTypes == {"audio", "video"}

\* the requests of initiateCall that have not reached Call.create yet
CreatingCalls == {u \in Users : rest[u].pc \in {"findOrCreate", "callcreate"}}

\* the participants initiateCall gives the new call: with isGroupCall and a
\* conversationId one entry for each entry of the loaded conversation's
\* participants that is not the caller, otherwise the receiver
Callees(u, isGroup, k, receiver) ==
    IF isGroup /\ k # None
    THEN SelectSeq(dbConv[k].order, LAMBDA p : p # u)
    ELSE <<receiver>>

\* initiateCall up to its first await answered: 400 for a type that is not
\* audio or video; a group call loads the conversation (404 without one),
\* takes its participants and issues Call.create; a private call loads the
\* receiver (404 without one) and issues Conversation.findOrCreatePrivate
InitiateCall(u, type, isGroup, k, receiver) ==
    /\ rest[u].pc = "idle"
    /\ Cardinality(FreshCalls) > Cardinality(CreatingCalls)
    /\ ops' = ops + 1
    /\ IF type \notin CallTypes
       THEN /\ resp' = [resp EXCEPT ![u] = "400"]
            /\ rest' = rest
       ELSE IF isGroup /\ k # None
       THEN IF k \notin Convs \/ dbConv[k] = Null
            THEN /\ resp' = [resp EXCEPT ![u] = "404"]
                 /\ rest' = rest
            ELSE /\ resp' = [resp EXCEPT ![u] = None]
                 /\ rest' = [rest EXCEPT ![u] =
                       [pc |-> "callcreate", op |-> "initiate", isGroup |-> isGroup,
                        callees |-> Callees(u, isGroup, k, receiver)]]
       ELSE IF receiver \notin Users
            THEN /\ resp' = [resp EXCEPT ![u] = "404"]
                 /\ rest' = rest
            ELSE /\ resp' = [resp EXCEPT ![u] = None]
                 /\ rest' = [rest EXCEPT ![u] =
                       [pc |-> "findOrCreate", op |-> "initiate", isGroup |-> isGroup,
                        callees |-> Callees(u, isGroup, k, receiver)]]
    /\ UNCHANGED <<presenceVars, activeCalls, pendingWrites, dbUser, dbCalls, msgVars,
                   inbox, now>>

\* initiateCall, private call: Conversation.findOrCreatePrivate answered (a
\* conversation it creates for a pair without one is none of Convs) and
\* Call.create is issued
InitiateConversation(u) ==
    /\ rest[u].pc = "findOrCreate"
    /\ rest' = [rest EXCEPT ![u].pc = "callcreate"]
    /\ UNCHANGED <<presenceVars, activeCalls, pendingWrites, dbUser, dbCalls, msgVars,
                   resp, inbox, now, ops>>

\* initiateCall: Call.create applied, the Call is stored 'ringing' with every
\* callee 'pending'; populate('caller') is issued
InitiateCreate(u) ==
    /\ rest[u].pc = "callcreate"
    /\ FreshCalls # {}
    /\ LET c == CHOOSE k \in FreshCalls : \A j \in FreshCalls : k = "k1" \/ j # "k1"
           doc == [caller |-> u,
                   parts |-> [i \in DOMAIN rest[u].callees |-> Pending(rest[u].callees[i])],
                   isGroupCall |-> rest[u].isGroup, status |-> "ringing",
                   startedAt |-> NoTime, endedAt |-> NoTime, duration |-> 0]
       IN  /\ dbCalls' = [dbCalls EXCEPT ![c] = PreSave(doc)]
           /\ rest' = [rest EXCEPT ![u] =
                 [pc |-> "populateCaller", op |-> "initiate", call |-> c,
                  callees |-> rest[u].callees]]
    /\ UNCHANGED <<presenceVars, activeCalls, pendingWrites, dbUser, msgVars, resp,
                   inbox, now, ops>>

\* initiateCall: populate('caller') answered, populate('participants.user')
\* is issued
InitiateCallerPopulated(u) ==
    /\ rest[u].pc = "populateCaller"
    /\ rest' = [rest EXCEPT ![u].pc = "populateParts"]
    /\ UNCHANGED <<presenceVars, activeCalls, pendingWrites, dbUser, dbCalls, msgVars,
                   resp, inbox, now, ops>>

\* initiateCall: populate('participants.user') answered with the callees'
\* stored socketId; 'incoming-call' is emitted once for each entry of
\* participants and the request ends 201
InitiatePopulated(u) ==
    /\ rest[u].pc = "populateParts"
    /\ inbox' = EmitEach(inbox, SocketIds(rest[u].callees),
                         Ev("incoming-call", u, rest[u].call, None))
    /\ rest' = [rest EXCEPT ![u] = Idle]
    /\ resp' = [resp EXCEPT ![u] = "201"]
    /\ UNCHANGED <<presenceVars, activeCalls, pendingWrites, dbUser, dbCalls, msgVars,
                   now, ops>>


\* call.save(): the update Mongoose sends holds the paths the handler
\* modified (dirty), and duration when the save hook changed it; every other
\* path keeps the value the store has by then
SaveCall(db, c, doc, dirty) ==
    LET d == PreSave(doc) IN
    [db EXCEPT ![c] =
        [@ EXCEPT
            !.status = IF dirty.status THEN d.status ELSE @,
            !.startedAt = IF dirty.startedAt THEN d.startedAt ELSE @,
            !.endedAt = IF dirty.endedAt THEN d.endedAt ELSE @,
            !.duration = IF d.duration # doc.duration THEN d.duration ELSE @,
            !.parts = [i \in DOMAIN @ |->
                [user |-> @[i].user,
                 status |-> IF i \in dirty.pstatus THEN d.parts[i].status ELSE @[i].status,
                 joinedAt |-> IF i \in dirty.joinedAt THEN d.parts[i].joinedAt
                              ELSE @[i].joinedAt,
                 leftAt |-> IF i \in dirty.leftAt THEN d.parts[i].leftAt
                            ELSE @[i].leftAt]]]]

\* the paths acceptCall, rejectCall and endCall populate after
\* Call.findById: each is a query of its own on the users
Populates == {"caller", "participants.user"}

\* Call.findById(callId) answered null: the request ends 404
NotFound(u, c) ==
    /\ rest[u].pc = "idle"
    /\ dbCalls[c] = Null
    /\ resp' = [resp EXCEPT ![u] = "404"]
    /\ ops' = ops + 1
    /\ UNCHANGED <<presenceVars, activeCalls, pendingWrites, dbUser, dbCalls, msgVars,
                   rest, inbox, now>>

\* Call.findById(callId) answered with the document: the populates of
\* caller and participants.user are issued
CallFound(u, c, op) ==
    /\ rest[u].pc = "idle"
    /\ dbCalls[c] # Null
    /\ ops' = ops + 1
    /\ rest' = [rest EXCEPT ![u] =
          [pc |-> "callpopulate", op |-> op, call |-> c, doc |-> dbCalls[c],
           pops |-> Populates, callerSocket |-> None, socketIds |-> <<>>]]
    /\ resp' = [resp EXCEPT ![u] = None]
    /\ UNCHANGED <<presenceVars, activeCalls, pendingWrites, dbUser, dbCalls, msgVars,
                   inbox, now>>

\* an acceptCall request arrives and its findById is answered
AcceptCall(u, c) == CallFound(u, c, "accept")

\* a rejectCall request arrives and its findById is answered
RejectCall(u, c) == CallFound(u, c, "reject")

\* an endCall request arrives and its findById is answered
EndCall(u, c) == CallFound(u, c, "end")

\* `if (call.status === 'ringing')` of acceptCall
IsFirstAccept(doc) == doc.status = "ringing"

\* acceptCall from the populated document to `await call.save()`: the first
\* entry of the user is accepted and joins now, a ringing call becomes
\* ongoing and starts now.  A path assigned the value it holds is not
\* modified.
AcceptCallLoad(u, r) ==
    LET doc == r.doc
        i == participantIndex(doc, u)
        first == IsFirstAccept(doc)
    IN  [pc |-> "save", op |-> "accept", call |-> r.call, first |-> first,
         doc |-> [doc EXCEPT !.parts[i].status = "accepted",
                             !.parts[i].joinedAt = now,
                             !.status = IF first THEN "ongoing" ELSE @,
                             !.startedAt = IF first THEN now ELSE @],
         dirty |-> [status |-> first, startedAt |-> first /\ doc.startedAt # now,
                    endedAt |-> FALSE,
                    pstatus |-> IF doc.parts[i].status # "accepted" THEN {i} ELSE {},
                    joinedAt |-> IF doc.parts[i].joinedAt # now THEN {i} ELSE {},
                    leftAt |-> {}],
         socks |-> <<r.callerSocket>>]

\* `call.participants.every((p) => p.status === 'rejected')` of rejectCall
AllRejected(doc) == \A i \in DOMAIN doc.parts : doc.parts[i].status = "rejected"

\* rejectCall from the populated document to `await call.save()`
RejectCallLoad(u, r) ==
    LET doc == r.doc
        i == participantIndex(doc, u)
        mine == [doc EXCEPT !.parts[i].status = "rejected"]
        all == AllRejected(mine)
    IN  [pc |-> "save", op |-> "reject", call |-> r.call, first |-> FALSE,
         doc |-> [mine EXCEPT !.status = IF all THEN "rejected" ELSE @,
                              !.endedAt = IF all THEN now ELSE @],
         dirty |-> [status |-> all /\ doc.status # "rejected", startedAt |-> FALSE,
                    endedAt |-> all /\ doc.endedAt # now,
                    pstatus |-> IF doc.parts[i].status # "rejected" THEN {i} ELSE {},
                    joinedAt |-> {}, leftAt |-> {}],
         socks |-> <<r.callerSocket>>]

\* endCall from the populated document to `await call.save()`; any
\* authenticated user may end a call
EndCallLoad(u, r) ==
    LET doc == r.doc
        staying == {i \in DOMAIN doc.parts : doc.parts[i].leftAt = NoTime}
    IN  [pc |-> "save", op |-> "end", call |-> r.call, first |-> FALSE,
         doc |-> [doc EXCEPT
                    !.status = "ended",
                    !.endedAt = now,
                    !.parts = [i \in DOMAIN @ |->
                        IF i \in staying THEN [@[i] EXCEPT !.leftAt = now]
                        ELSE @[i]]],
         dirty |-> [status |-> doc.status # "ended", startedAt |-> FALSE,
                    endedAt |-> doc.endedAt # now, pstatus |-> {}, joinedAt |-> {},
                    leftAt |-> staying],
         socks |-> <<r.callerSocket>> \o r.socketIds]

\* both populates answered and the handler goes on: acceptCall and rejectCall
\* end 403 for a user with no entry in participants (participantIndex -1);
\* otherwise the document is modified and call.save() issued
Populated(u, r) ==
    IF r.op # "end" /\ u \notin PartUsers(r.doc)
    THEN /\ rest' = [rest EXCEPT ![u] = Idle]
         /\ resp' = [resp EXCEPT ![u] = "403"]
    ELSE /\ rest' = [rest EXCEPT ![u] =
               IF r.op = "accept" THEN AcceptCallLoad(u, r)
               ELSE IF r.op = "reject" THEN RejectCallLoad(u, r)
               ELSE EndCallLoad(u, r)]
         /\ resp' = resp

\* one populate answered: the stored socketId of the users it loads is read
\* now; with the other still outstanding the handler waits on
Populate(u, path) ==
    /\ rest[u].pc = "callpopulate"
    /\ path \in rest[u].pops
    /\ LET r == [rest[u] EXCEPT
                   !.pops = @ \ {path},
                   !.callerSocket = IF path = "caller"
                                    THEN dbUser[rest[u].doc.caller].socketId ELSE @,
                   !.socketIds = IF path = "participants.user"
                                 THEN SocketIds([i \in DOMAIN rest[u].doc.parts |->
                                                    rest[u].doc.parts[i].user])
                                 ELSE @]
       IN  IF r.pops = {}
           THEN Populated(u, r)
           ELSE rest' = [rest EXCEPT ![u] = r] /\ resp' = resp
    /\ UNCHANGED <<presenceVars, activeCalls, pendingWrites, dbUser, dbCalls, msgVars,
                   inbox, now, ops>>

\* populate('caller') answered
PopulateCaller(u) == Populate(u, "caller")

\* populate('participants.user') answered
PopulateParticipants(u) == Populate(u, "participants.user")

\* acceptCall from the save on: the caller's stored socket is notified
AcceptCallSave(u) ==
    /\ rest[u].pc = "save"
    /\ rest[u].op = "accept"
    /\ dbCalls' = SaveCall(dbCalls, rest[u].call, rest[u].doc, rest[u].dirty)
    /\ inbox' = EmitEach(inbox, rest[u].socks, Ev("call-accepted", u, rest[u].call, "api"))
    /\ rest' = [rest EXCEPT ![u] = Idle]
    /\ resp' = [resp EXCEPT ![u] = "200"]
    /\ UNCHANGED <<presenceVars, activeCalls, pendingWrites, dbUser, msgVars, now, ops>>

\* rejectCall from the save on
RejectCallSave(u) ==
    /\ rest[u].pc = "save"
    /\ rest[u].op = "reject"
    /\ dbCalls' = SaveCall(dbCalls, rest[u].call, rest[u].doc, rest[u].dirty)
    /\ inbox' = EmitEach(inbox, rest[u].socks, Ev("call-rejected", u, rest[u].call, "api"))
    /\ rest' = [rest EXCEPT ![u] = Idle]
    /\ resp' = [resp EXCEPT ![u] = "200"]
    /\ UNCHANGED <<presenceVars, activeCalls, pendingWrites, dbUser, msgVars, now, ops>>

\* endCall from the save on: 'call-ended' with the duration is emitted once
\* to the caller and once for each entry of participants
EndCallSave(u) ==
    /\ rest[u].pc = "save"
    /\ rest[u].op = "end"
    /\ dbCalls' = SaveCall(dbCalls, rest[u].call, rest[u].doc, rest[u].dirty)
    /\ inbox' = EmitEach(inbox, rest[u].socks,
                        EvN("call-ended", u, rest[u].call, "api",
                            PreSave(rest[u].doc).duration))
    /\ rest' = [rest EXCEPT ![u] = Idle]
    /\ resp' = [resp EXCEPT ![u] = "200"]
    /\ UNCHANGED <<presenceVars, activeCalls, pendingWrites, dbUser, msgVars, now, ops>>

\* ------------------------------------------------- message pipeline

\* io.to(`conversation:${id}`): the connected sockets that joined the room
Room(k) == {s \in Sockets : k \in joined[s] /\ sock[s] = "open"}

\* conversation.unreadCount.get(p) || 0
Unread(conv, p) == IF p \in DOMAIN conv.unreadCount THEN conv.unreadCount[p] ELSE 0

\* map.set(p, n) on the stored map
SetUnread(map, p, n) ==
    [q \in DOMAIN map \cup {p} |-> IF q = p THEN n ELSE map[q]]

RECURSIVE SetAll(_, _, _)
\* the unreadCount paths a save writes: the keys in P, with the values of doc
SetAll(map, P, doc) ==
    IF P = {} THEN map
    ELSE LET p == CHOOSE q \in P : TRUE
         IN  SetAll(SetUnread(map, p, doc.unreadCount[p]), P \ {p}, doc)

\* the ids Message.create has not used yet
FreshMsgs == {m \in MsgIds : dbMsgs[m] = Null}

\* the send-message handlers that have not reached Message.create yet
Creating == {s \in Sockets : task[s].pc \in {"find", "create"}}

\* the HTTP submissions awaiting Message.create
CreatingRest == {u \in Users : rest[u].pc = "create"}

\* conversation ids that name no stored conversation
NoConvs == {"x1"}

\* Conversation.findById(k) finds a document
Stored(k) == k \in Convs /\ dbConv[k] # Null

\* a send-message event arrives on a connected socket: the handler runs to
\* its first await and Conversation.findById is issued
SendMessage(s, k) ==
    /\ Ready(s)
    /\ task[s].pc = "idle"
    /\ Cardinality(FreshMsgs) > Cardinality(Creating) + Cardinality(CreatingRest)
    /\ ops' = ops + 1
    /\ task' = [task EXCEPT ![s] = [pc |-> "find", op |-> "send", conv |-> k]]
    /\ UNCHANGED <<presenceVars, activeCalls, pendingWrites, dbUser, dbCalls, dbConv,
                   dbMsgs, restVars, inbox, now>>

\* send-message: Conversation.findById answered, Message.create issued; the
\* new document's createdAt is the time of this call
SendFind(s) ==
    /\ task[s].pc = "find"
    /\ Stored(task[s].conv)
    /\ task' = [task EXCEPT ![s] = [pc |-> "create", op |-> "send", conv |-> task[s].conv,
                                    doc |-> dbConv[task[s].conv], at |-> now]]
    /\ UNCHANGED <<presenceVars, activeCalls, pendingWrites, dbUser, dbCalls, dbConv,
                   dbMsgs, restVars, inbox, now, ops>>

\* send-message: Conversation.findById answers null and the handler returns
\* (`if (!conversation) return;`)
SendFindNone(s) ==
    /\ task[s].pc = "find"
    /\ ~Stored(task[s].conv)
    /\ task' = [task EXCEPT ![s] = Idle]
    /\ UNCHANGED <<presenceVars, activeCalls, pendingWrites, dbUser, dbCalls, dbConv,
                   dbMsgs, restVars, inbox, now, ops>>

\* the increments of send-message on the loaded conversation: one for each
\* entry of participants that is not the sender
Increment(doc, sender) ==
    [p \in DOMAIN doc.unreadCount \cup (doc.participants \ {sender}) |->
        IF p \in doc.participants \ {sender} THEN Unread(doc, p) + Occurs(doc.order, p)
        ELSE doc.unreadCount[p]]

\* Message.create applied (status 'sent'); lastMessage and the counters are
\* set on the loaded conversation and conversation.save() is issued
SendCreate(s) ==
    /\ task[s].pc = "create"
    /\ LET m == CHOOSE x \in FreshMsgs : \A y \in FreshMsgs : x = "m1" \/ y # "m1"
           u == userOf(s)
       IN  /\ dbMsgs' = [dbMsgs EXCEPT ![m] =
                  [conv |-> task[s].conv, sender |-> u, status |-> "sent",
                   deliveredTo |-> <<>>, readBy |-> <<>>, reactions |-> {},
                   starredBy |-> {}, deletedFor |-> {},
                   isDeletedForEveryone |-> FALSE, createdAt |-> task[s].at, v |-> 0]]
           /\ task' = [task EXCEPT ![s] =
                  [pc |-> "convsave", op |-> "send", conv |-> task[s].conv, msg |-> m,
                   doc |-> [task[s].doc EXCEPT !.lastMessage = m,
                                               !.unreadCount = Increment(task[s].doc, u)]]]
    /\ UNCHANGED <<presenceVars, activeCalls, pendingWrites, dbUser, dbCalls, dbConv,
                   restVars, inbox, now, ops>>

\* conversation.save() applied: lastMessage and the counters of the other
\* participants are written with the values computed from the loaded document
SendConvSave(s) ==
    /\ task[s].pc = "convsave"
    /\ Stored(task[s].conv)
    /\ LET doc == task[s].doc IN
       dbConv' = [dbConv EXCEPT ![task[s].conv] =
                    [@ EXCEPT !.lastMessage = doc.lastMessage,
                              !.unreadCount =
                                  SetAll(@, doc.participants \ {userOf(s)}, doc)]]
    /\ task' = [task EXCEPT ![s].pc = "populate"]
    /\ UNCHANGED <<presenceVars, activeCalls, pendingWrites, dbUser, dbCalls, dbMsgs,
                   restVars, inbox, now, ops>>

\* the catch of send-message: socket.emit('error', {message: 'Failed to send
\* message'}) and the handler ends
SendFailed(s) ==
    /\ inbox' = EmitTo(inbox, s, Ev("error", None, None, None))
    /\ task' = [task EXCEPT ![s] = Idle]

\* Message.create rejects and the handler publishes a message all the same
SendCreateFailedPublishes(s) ==
    /\ task[s].pc = "create"
    /\ inbox' = EmitAll(inbox, Room(task[s].conv), Ev("new-message", userOf(s), None, None))
    /\ task' = [task EXCEPT ![s] = Idle]
    /\ UNCHANGED <<presenceVars, activeCalls, pendingWrites, dbUser, dbCalls, dbConv,
                   dbMsgs, restVars, now, ops>>

\* Message.create rejects: nothing is stored and the catch runs
SendCreateFailed(s) ==
    /\ task[s].pc = "create"
    /\ SendFailed(s)
    /\ UNCHANGED <<presenceVars, activeCalls, pendingWrites, dbUser, dbCalls, dbConv,
                   dbMsgs, restVars, now, ops>>

\* conversation.save() rejects: the conversation is not written and the catch
\* runs, with the message already stored
SendConvSaveFailed(s) ==
    /\ task[s].pc = "convsave"
    /\ SendFailed(s)
    /\ UNCHANGED <<presenceVars, activeCalls, pendingWrites, dbUser, dbCalls, dbConv,
                   dbMsgs, restVars, now, ops>>

\* delivery tracking that does not consult the registry
DeliveredNowAll(doc, sender) == SelectSeq(doc.order, LAMBDA p : p # sender)

\* the participants send-message marks delivered: those, other than the
\* sender, with an entry in onlineUsers
DeliveredNow(doc, sender) ==
    SelectSeq(doc.order, LAMBDA p : p # sender /\ lookup(p) # None)

\* a handler that publishes new-message only after the delivery tracking
SendPopulatedUnpublished(s) ==
    /\ task[s].pc = "populate"
    /\ LET k == task[s].conv
           d == DeliveredNow(task[s].doc, userOf(s))
       IN  /\ inbox' = inbox
           /\ task' = [task EXCEPT ![s] =
                  IF d # <<>>
                  THEN [pc |-> "msgsave", op |-> "send", conv |-> k,
                        msg |-> task[s].msg, delivered |-> d]
                  ELSE Idle]
    /\ UNCHANGED <<presenceVars, activeCalls, pendingWrites, dbUser, dbCalls, dbConv,
                   dbMsgs, restVars, now, ops>>

\* the populates answered: new-message goes to the room; with a participant
\* online the message is marked delivered and message.save() is issued
SendPopulated(s) ==
    /\ task[s].pc = "populate"
    /\ LET k == task[s].conv
           d == DeliveredNow(task[s].doc, userOf(s))
       IN  /\ inbox' = EmitAll(inbox, Room(k), Ev("new-message", userOf(s), None, task[s].msg))
           /\ task' = [task EXCEPT ![s] =
                  IF d # <<>>
                  THEN [pc |-> "msgsave", op |-> "send", conv |-> k,
                        msg |-> task[s].msg, delivered |-> d]
                  ELSE Idle]
    /\ UNCHANGED <<presenceVars, activeCalls, pendingWrites, dbUser, dbCalls, dbConv,
                   dbMsgs, restVars, now, ops>>

\* message.save() applied: status 'delivered' is set and the deliveredTo
\* entries are pushed (a push increments __v); message-status-update goes to
\* the room
SendMsgSave(s) ==
    /\ task[s].pc = "msgsave"
    /\ IsMsg(dbMsgs[task[s].msg])
    /\ dbMsgs' = [dbMsgs EXCEPT ![task[s].msg] =
                    [@ EXCEPT !.status = "delivered",
                              !.deliveredTo = @ \o task[s].delivered,
                              !.v = @ + 1]]
    /\ inbox' = EmitAll(inbox, Room(task[s].conv),
                        Ev("message-status-update", None, None, task[s].msg))
    /\ task' = [task EXCEPT ![s] = Idle]
    /\ UNCHANGED <<presenceVars, activeCalls, pendingWrites, dbUser, dbCalls, dbConv,
                   restVars, now, ops>>

\* message.save() rejects (as it does when the message was deleted
\* meanwhile): the catch runs, with new-message already published
SendMsgSaveFailed(s) ==
    /\ task[s].pc = "msgsave"
    /\ SendFailed(s)
    /\ UNCHANGED <<presenceVars, activeCalls, pendingWrites, dbUser, dbCalls, dbConv,
                   dbMsgs, restVars, now, ops>>

\* Message.updateMany({conversation, sender: {$ne: reader}, status: {$ne:
\* 'read'}}, {$set: {status: 'read'}, $push: {readBy: reader}})
MarkRead(msgs, k, reader) ==
    [m \in MsgIds |->
        IF IsMsg(msgs[m]) /\ msgs[m].conv = k /\ msgs[m].sender # reader
           /\ msgs[m].status # "read"
        THEN [msgs[m] EXCEPT !.status = "read", !.readBy = Append(@, reader)]
        ELSE msgs[m]]

\* a messages-read event arrives on a connected socket: Message.updateMany
\* is issued
MessagesRead(s, k) ==
    /\ Ready(s)
    /\ task[s].pc = "idle"
    /\ ops' = ops + 1
    /\ task' = [task EXCEPT ![s] = [pc |-> "readupdate", op |-> "read", conv |-> k]]
    /\ UNCHANGED <<presenceVars, activeCalls, pendingWrites, dbUser, dbCalls, dbConv,
                   dbMsgs, restVars, inbox, now>>

\* messages-read: the updateMany applied, Conversation.findById issued
ReadUpdate(s) ==
    /\ task[s].pc = "readupdate"
    /\ dbMsgs' = MarkRead(dbMsgs, task[s].conv, userOf(s))
    /\ task' = [task EXCEPT ![s].pc = "readfind"]
    /\ UNCHANGED <<presenceVars, activeCalls, pendingWrites, dbUser, dbCalls, dbConv,
                   restVars, inbox, now, ops>>

\* unreadCount.set(reader, 0) marks the path modified unless the loaded map
\* already holds 0 for the reader
ResetIsDirty(doc, reader) ==
    ~(reader \in DOMAIN doc.unreadCount /\ doc.unreadCount[reader] = 0)

\* messages-read: Conversation.findById answered.  With a conversation its
\* save is issued; without one (`if (conversation)`) messages-read goes to the
\* rest of the room at once
ReadFind(s) ==
    /\ task[s].pc = "readfind"
    /\ IF Stored(task[s].conv)
       THEN /\ task' = [task EXCEPT ![s] =
                  [pc |-> "readsave", op |-> "read", conv |-> task[s].conv,
                   dirty |-> ResetIsDirty(dbConv[task[s].conv], userOf(s))]]
            /\ inbox' = inbox
       ELSE /\ task' = [task EXCEPT ![s] = Idle]
            /\ inbox' = EmitAll(inbox, Room(task[s].conv) \ {s},
                                Ev("messages-read", userOf(s), None, task[s].conv))
    /\ UNCHANGED <<presenceVars, activeCalls, pendingWrites, dbUser, dbCalls, dbConv,
                   dbMsgs, restVars, now, ops>>

\* the reset of the reader's counter as conversation.save() writes it
SaveReset(convs, k, reader, dirty) ==
    IF dirty THEN [convs EXCEPT ![k].unreadCount = SetUnread(@, reader, 0)] ELSE convs

\* conversation.save() finds its document: the update it sends matches the
\* document, and with no path modified it looks the document up and rejects
\* when there is none
Saves(k) == Stored(k)

\* messages-read: conversation.save() rejects (as it does when the
\* conversation was deleted meanwhile); the catch logs the error and nothing
\* is published
ReadSaveFailed(s) ==
    /\ task[s].pc = "readsave"
    /\ task' = [task EXCEPT ![s] = Idle]
    /\ UNCHANGED <<presenceVars, activeCalls, pendingWrites, dbUser, dbCalls, dbConv,
                   dbMsgs, restVars, inbox, now, ops>>

\* messages-read: the save applied; messages-read goes to the rest of the room
ReadSave(s) ==
    /\ task[s].pc = "readsave"
    /\ Saves(task[s].conv)
    /\ dbConv' = SaveReset(dbConv, task[s].conv, userOf(s), task[s].dirty)
    /\ inbox' = EmitAll(inbox, Room(task[s].conv) \ {s},
                        Ev("messages-read", userOf(s), None, task[s].conv))
    /\ task' = [task EXCEPT ![s] = Idle]
    /\ UNCHANGED <<presenceVars, activeCalls, pendingWrites, dbUser, dbCalls, dbMsgs,
                   restVars, now, ops>>

\* markAsRead (PUT /api/messages/:conversationId/read): the updateMany applied
MarkAsReadUpdate(u, k) ==
    /\ rest[u].pc = "idle"
    /\ ops' = ops + 1
    /\ dbMsgs' = MarkRead(dbMsgs, k, u)
    /\ rest' = [rest EXCEPT ![u] = [pc |-> "readfind", op |-> "read", conv |-> k]]
    /\ UNCHANGED <<presenceVars, activeCalls, pendingWrites, dbUser, dbCalls, dbConv,
                   task, resp, inbox, now>>

\* markAsRead: Conversation.findById answered.  With a conversation its save
\* is issued; without one messages-read goes to the whole room and the request
\* ends 200
MarkAsReadFind(u) ==
    /\ rest[u].pc = "readfind"
    /\ IF Stored(rest[u].conv)
       THEN /\ rest' = [rest EXCEPT ![u] =
                  [pc |-> "readsave", op |-> "read", conv |-> rest[u].conv,
                   dirty |-> ResetIsDirty(dbConv[rest[u].conv], u)]]
            /\ UNCHANGED <<resp, inbox>>
       ELSE /\ rest' = [rest EXCEPT ![u] = Idle]
            /\ inbox' = EmitAll(inbox, Room(rest[u].conv),
                                Ev("messages-read", u, None, rest[u].conv))
            /\ resp' = [resp EXCEPT ![u] = "200"]
    /\ UNCHANGED <<presenceVars, activeCalls, pendingWrites, dbUser, dbCalls, msgVars,
                   now, ops>>

\* a request whose awaited operation rejects: next(error) answers 500
RequestFailed(u) ==
    /\ rest' = [rest EXCEPT ![u] = Idle]
    /\ resp' = [resp EXCEPT ![u] = "500"]

\* markAsRead: conversation.save() rejects (as it does when the conversation
\* was deleted meanwhile)
MarkAsReadSaveFailed(u) ==
    /\ rest[u].pc = "readsave"
    /\ RequestFailed(u)
    /\ UNCHANGED <<presenceVars, activeCalls, pendingWrites, dbUser, dbCalls, msgVars,
                   inbox, now, ops>>

\* markAsRead: the save applied; messages-read goes to the whole room
MarkAsReadSave(u) ==
    /\ rest[u].pc = "readsave"
    /\ Saves(rest[u].conv)
    /\ dbConv' = SaveReset(dbConv, rest[u].conv, u, rest[u].dirty)
    /\ inbox' = EmitAll(inbox, Room(rest[u].conv),
                        Ev("messages-read", u, None, rest[u].conv))
    /\ rest' = [rest EXCEPT ![u] = Idle]
    /\ resp' = [resp EXCEPT ![u] = "200"]
    /\ UNCHANGED <<presenceVars, activeCalls, pendingWrites, dbUser, dbCalls, dbMsgs,
                   task, now, ops>>

\* -------------------------------------------- message controller

\* the submission routes of the message controller
Paths == {"sendMessage", "sendFileMessage", "sendVoiceMessage"}

\* `isParticipant` of sendMessage; sendFileMessage and sendVoiceMessage make
\* no such test
Refused(path, conv, u) == path = "sendMessage" /\ u \notin conv.participants

\* a submission: Conversation.findById answered; 404 without a conversation;
\* sendMessage answers 403 to a user outside participants; otherwise
\* Message.create is issued, the new document's createdAt being the time of
\* this call
SubmitFind(u, k, path) ==
    /\ rest[u].pc = "idle"
    /\ Cardinality(FreshMsgs) > Cardinality(Creating) + Cardinality(CreatingRest)
    /\ ops' = ops + 1
    /\ IF ~Stored(k)
       THEN /\ resp' = [resp EXCEPT ![u] = "404"]
            /\ rest' = rest
       ELSE IF Refused(path, dbConv[k], u)
       THEN /\ resp' = [resp EXCEPT ![u] = "403"]
            /\ rest' = rest
       ELSE /\ rest' = [rest EXCEPT ![u] = [pc |-> "create", op |-> "submit", path |-> path,
                                            conv |-> k, doc |-> dbConv[k], at |-> now]]
            /\ resp' = [resp EXCEPT ![u] = None]
    /\ UNCHANGED <<presenceVars, activeCalls, pendingWrites, dbUser, dbCalls, msgVars,
                   inbox, now>>

\* Message.create applied (status 'sent'); lastMessage and the counters are
\* set on the loaded conversation and conversation.save() is issued
SubmitCreate(u) ==
    /\ rest[u].pc = "create"
    /\ LET m == CHOOSE x \in FreshMsgs : \A y \in FreshMsgs : x = "m1" \/ y # "m1"
       IN  /\ dbMsgs' = [dbMsgs EXCEPT ![m] =
                  [conv |-> rest[u].conv, sender |-> u, status |-> "sent",
                   deliveredTo |-> <<>>, readBy |-> <<>>, reactions |-> {},
                   starredBy |-> {}, deletedFor |-> {},
                   isDeletedForEveryone |-> FALSE, createdAt |-> rest[u].at, v |-> 0]]
           /\ rest' = [rest EXCEPT ![u] =
                  [pc |-> "convsave", op |-> "submit", path |-> rest[u].path,
                   conv |-> rest[u].conv, msg |-> m,
                   doc |-> [rest[u].doc EXCEPT !.lastMessage = m,
                                               !.unreadCount = Increment(rest[u].doc, u)]]]
    /\ UNCHANGED <<presenceVars, activeCalls, pendingWrites, dbUser, dbCalls, dbConv, task,
                   resp, inbox, now, ops>>

\* Message.create of a submission rejects: nothing is stored and
\* next(error) answers 500
SubmitCreateFailed(u) ==
    /\ rest[u].pc = "create"
    /\ RequestFailed(u)
    /\ UNCHANGED <<presenceVars, activeCalls, pendingWrites, dbUser, dbCalls, msgVars,
                   inbox, now, ops>>

\* conversation.save() applied, the populates issued
SubmitConvSave(u) ==
    /\ rest[u].pc = "convsave"
    /\ Stored(rest[u].conv)
    /\ LET doc == rest[u].doc IN
       dbConv' = [dbConv EXCEPT ![rest[u].conv] =
                    [@ EXCEPT !.lastMessage = doc.lastMessage,
                              !.unreadCount = SetAll(@, doc.participants \ {u}, doc)]]
    /\ rest' = [rest EXCEPT ![u].pc = "populate"]
    /\ UNCHANGED <<presenceVars, activeCalls, pendingWrites, dbUser, dbCalls, dbMsgs, task,
                   resp, inbox, now, ops>>

\* conversation.save() of a submission rejects (as it does when the
\* conversation was deleted meanwhile): the message stays stored
SubmitConvSaveFailed(u) ==
    /\ rest[u].pc = "convsave"
    /\ RequestFailed(u)
    /\ UNCHANGED <<presenceVars, activeCalls, pendingWrites, dbUser, dbCalls, msgVars,
                   inbox, now, ops>>

\* the populates answered: new-message goes to the room, the request ends 201
SubmitPopulated(u) ==
    /\ rest[u].pc = "populate"
    /\ inbox' = EmitAll(inbox, Room(rest[u].conv),
                        Ev("new-message", u, None, rest[u].msg))
    /\ rest' = [rest EXCEPT ![u] = Idle]
    /\ resp' = [resp EXCEPT ![u] = "201"]
    /\ UNCHANGED <<presenceVars, activeCalls, pendingWrites, dbUser, dbCalls, msgVars,
                   now, ops>>

\* ------------------------------------------ conversation controller

\* the users of a participants array
Range(seq) == {seq[i] : i \in DOMAIN seq}

\* array.filter(p => p !== u)
Without(seq, u) == SelectSeq(seq, LAMBDA p : p # u)

\* the update a conversation.save() sends after a membership change.  A
\* reassigned array that differs from the loaded one is written whole ($set),
\* and the update then matches only the version the document was loaded
\* with; an array that was only pushed onto is extended in the store ($push).
\* Either way __v is incremented; unreadCount and every other path keep the
\* stored value.  A push marks its array modified whatever it is given, so
\* that a push of nothing still sends an update that increments __v.  With no
\* path modified no update is sent and the document is looked up instead.
SaveMembers(convs, r) ==
    [convs EXCEPT ![r.conv] =
        [@ EXCEPT !.order = IF r.setP THEN r.order ELSE @ \o r.pushP,
                  !.participants = IF r.setP THEN Range(r.order) ELSE @ \cup Range(r.pushP),
                  !.groupAdmin = IF r.setG THEN r.groupAdmin ELSE @ \cup r.pushG,
                  !.v = @ + 1]]

\* the save has a path to write
Modifies(r) == r.setP \/ r.setG \/ r.pushed

\* the update of the save matches the stored document
Matches(r) == Stored(r.conv) /\ ((r.setP \/ r.setG) => dbConv[r.conv].v = r.v)

\* the request a membership change holds between its load and its save: the
\* arrays as reassigned (order, groupAdmin), what was pushed (pushP, pushG)
\* and whether push was called: addParticipants calls
\* participants.push(...newParticipants) with any newParticipants, the
\* others call groupAdmin.push with the one user they add
Members(op, k, conv, order, G, pushP, pushG) ==
    [pc |-> "memberssave", op |-> op, conv |-> k, v |-> conv.v,
     order |-> order, groupAdmin |-> G, pushP |-> pushP, pushG |-> pushG,
     pushed |-> op = "add" \/ pushG # {},
     setP |-> order # conv.order, setG |-> G # conv.groupAdmin]

\* conversation.save() of a membership change applied; with no path
\* modified the document is found and nothing is written
MembersSaved(u) ==
    IF Modifies(rest[u])
    THEN Matches(rest[u]) /\ dbConv' = SaveMembers(dbConv, rest[u])
    ELSE Saves(rest[u].conv) /\ dbConv' = dbConv

\* conversation.save() of a membership change rejects: the update matched no
\* document (VersionError after an overlapping save, or the conversation is
\* gone) or the store failed; next(error) answers 500 and nothing is written
MembersSaveFailed(u) ==
    /\ rest[u].pc = "memberssave"
    /\ RequestFailed(u)
    /\ UNCHANGED <<presenceVars, activeCalls, pendingWrites, dbUser, dbCalls, msgVars,
                   inbox, now, ops>>

\* leaveGroup: the group loaded, the user filtered out of participants and
\* groupAdmin; an empty group is deleted, a group left without admin gets its
\* first participant as admin; the save (or the delete) is issued
LeaveGroupLoad(u, k) ==
    /\ rest[u].pc = "idle"
    /\ ops' = ops + 1
    /\ IF ~Stored(k) \/ dbConv[k].type # "group"
       THEN /\ resp' = [resp EXCEPT ![u] = "404"]
            /\ rest' = rest
       ELSE LET order == Without(dbConv[k].order, u)
                G == dbConv[k].groupAdmin \ {u}
                first == IF G = {} /\ order # <<>> THEN {order[1]} ELSE {}
            IN  /\ resp' = [resp EXCEPT ![u] = None]
                /\ rest' = [rest EXCEPT ![u] =
                      IF order = <<>> THEN [pc |-> "delete", op |-> "leave", conv |-> k]
                      ELSE IF G # dbConv[k].groupAdmin
                      THEN Members("leave", k, dbConv[k], order, G \cup first, <<>>, {})
                      ELSE Members("leave", k, dbConv[k], order, G, <<>>, first)]
    /\ UNCHANGED <<presenceVars, activeCalls, pendingWrites, dbUser, dbCalls, msgVars,
                   inbox, now>>

\* leaveGroup: conversation.save() applied, the request ends 200
LeaveGroupSave(u) ==
    /\ rest[u].pc = "memberssave"
    /\ rest[u].op = "leave"
    /\ MembersSaved(u)
    /\ rest' = [rest EXCEPT ![u] = Idle]
    /\ resp' = [resp EXCEPT ![u] = "200"]
    /\ UNCHANGED <<presenceVars, activeCalls, pendingWrites, dbUser, dbCalls, dbMsgs, task,
                   inbox, now, ops>>

\* leaveGroup: Conversation.findByIdAndDelete applied, the request ends 200
LeaveGroupDelete(u) ==
    /\ rest[u].pc = "delete"
    /\ rest[u].op = "leave"
    /\ dbConv' = [dbConv EXCEPT ![rest[u].conv] = Null]
    /\ rest' = [rest EXCEPT ![u] = Idle]
    /\ resp' = [resp EXCEPT ![u] = "200"]
    /\ UNCHANGED <<presenceVars, activeCalls, pendingWrites, dbUser, dbCalls, dbMsgs, task,
                   inbox, now, ops>>

\* removeParticipant: the group loaded; 403 unless the requester is an admin;
\* the target filtered out of participants and groupAdmin, the save issued
RemoveParticipantLoad(u, target, k) ==
    /\ rest[u].pc = "idle"
    /\ ops' = ops + 1
    /\ IF ~Stored(k) \/ dbConv[k].type # "group"
       THEN /\ resp' = [resp EXCEPT ![u] = "404"]
            /\ rest' = rest
       ELSE IF u \notin dbConv[k].groupAdmin
       THEN /\ resp' = [resp EXCEPT ![u] = "403"]
            /\ rest' = rest
       ELSE /\ resp' = [resp EXCEPT ![u] = None]
            /\ rest' = [rest EXCEPT ![u] =
                  Members("remove", k, dbConv[k], Without(dbConv[k].order, target),
                          dbConv[k].groupAdmin \ {target}, <<>>, {})]
    /\ UNCHANGED <<presenceVars, activeCalls, pendingWrites, dbUser, dbCalls, msgVars,
                   inbox, now>>

\* a membership change saved: conversation.populate('participants') is issued
SaveThenPopulate(u, op) ==
    /\ rest[u].pc = "memberssave"
    /\ rest[u].op = op
    /\ MembersSaved(u)
    /\ rest' = [rest EXCEPT ![u] = [pc |-> "memberspopulate", op |-> op]]
    /\ UNCHANGED <<presenceVars, activeCalls, pendingWrites, dbUser, dbCalls, dbMsgs, task,
                   resp, inbox, now, ops>>

\* the populate after a membership change answered, the request ends 200
MembersPopulated(u) ==
    /\ rest[u].pc = "memberspopulate"
    /\ rest' = [rest EXCEPT ![u] = Idle]
    /\ resp' = [resp EXCEPT ![u] = "200"]
    /\ UNCHANGED <<presenceVars, activeCalls, pendingWrites, dbUser, dbCalls, msgVars,
                   inbox, now, ops>>

\* removeParticipant: conversation.save() applied
RemoveParticipantSave(u) == SaveThenPopulate(u, "remove")

\* participants.filter(p => !conversation.participants.includes(p))
NewOnes(conv, added) == SelectSeq(added, LAMBDA p : p \notin conv.participants)

\* addParticipants: the group loaded; 403 unless the requester is an admin;
\* the named users that are no participants are pushed, the save issued
AddParticipantsLoad(u, added, k) ==
    /\ rest[u].pc = "idle"
    /\ ops' = ops + 1
    /\ IF ~Stored(k) \/ dbConv[k].type # "group"
       THEN /\ resp' = [resp EXCEPT ![u] = "404"]
            /\ rest' = rest
       ELSE IF u \notin dbConv[k].groupAdmin
       THEN /\ resp' = [resp EXCEPT ![u] = "403"]
            /\ rest' = rest
       ELSE /\ resp' = [resp EXCEPT ![u] = None]
            /\ rest' = [rest EXCEPT ![u] =
                  Members("add", k, dbConv[k], dbConv[k].order, dbConv[k].groupAdmin,
                          NewOnes(dbConv[k], added), {})]
    /\ UNCHANGED <<presenceVars, activeCalls, pendingWrites, dbUser, dbCalls, msgVars,
                   inbox, now>>

\* addParticipants: conversation.save() applied
AddParticipantsSave(u) == SaveThenPopulate(u, "add")

\* makeAdmin: the group loaded; 403 unless the requester is an admin, 400 for
\* a target outside participants; a target who is no admin is pushed and the
\* save issued, otherwise the request ends 200 at once
MakeAdminLoad(u, target, k) ==
    /\ rest[u].pc = "idle"
    /\ ops' = ops + 1
    /\ IF ~Stored(k) \/ dbConv[k].type # "group"
       THEN /\ resp' = [resp EXCEPT ![u] = "404"]
            /\ rest' = rest
       ELSE IF u \notin dbConv[k].groupAdmin
       THEN /\ resp' = [resp EXCEPT ![u] = "403"]
            /\ rest' = rest
       ELSE IF target \notin dbConv[k].participants
       THEN /\ resp' = [resp EXCEPT ![u] = "400"]
            /\ rest' = rest
       ELSE IF target \in dbConv[k].groupAdmin
       THEN /\ resp' = [resp EXCEPT ![u] = "200"]
            /\ rest' = rest
       ELSE /\ resp' = [resp EXCEPT ![u] = None]
            /\ rest' = [rest EXCEPT ![u] =
                  Members("admin", k, dbConv[k], dbConv[k].order, dbConv[k].groupAdmin,
                          <<>>, {target})]
    /\ UNCHANGED <<presenceVars, activeCalls, pendingWrites, dbUser, dbCalls, msgVars,
                   inbox, now>>

\* makeAdmin: conversation.save() applied, the request ends 200
MakeAdminSave(u) ==
    /\ rest[u].pc = "memberssave"
    /\ rest[u].op = "admin"
    /\ MembersSaved(u)
    /\ rest' = [rest EXCEPT ![u] = Idle]
    /\ resp' = [resp EXCEPT ![u] = "200"]
    /\ UNCHANGED <<presenceVars, activeCalls, pendingWrites, dbUser, dbCalls, dbMsgs, task,
                   inbox, now, ops>>

\* --------------------------------------------- conversation rooms

\* socket.on('join-conversation'): socket.join of the room of the named
\* conversation, whoever the user is
JoinConversation(s, k) ==
    /\ Ready(s)
    /\ joined' = [joined EXCEPT ![s] = @ \cup {k}]
    /\ ops' = ops + 1
    /\ UNCHANGED <<sock, connPc, onlineUsers, userSockets, latest, dc, activeCalls,
                   pendingWrites, dbUser, dbCalls, msgVars, restVars, inbox, now>>

\* socket.on('leave-conversation'): socket.leave of the room
LeaveConversation(s, k) ==
    /\ Ready(s)
    /\ joined' = [joined EXCEPT ![s] = @ \ {k}]
    /\ ops' = ops + 1
    /\ UNCHANGED <<sock, connPc, onlineUsers, userSockets, latest, dc, activeCalls,
                   pendingWrites, dbUser, dbCalls, msgVars, restVars, inbox, now>>

\* socket.on('typing-start'): user-typing goes to the rest of the room
TypingStart(s, k) ==
    /\ Ready(s)
    /\ inbox' = EmitAll(inbox, Room(k) \ {s}, Ev("user-typing", userOf(s), None, k))
    /\ ops' = ops + 1
    /\ UNCHANGED <<presenceVars, activeCalls, pendingWrites, dbUser, dbCalls, msgVars,
                   restVars, now>>

\* socket.on('typing-stop'): user-stopped-typing goes to the rest of the room
TypingStop(s, k) ==
    /\ Ready(s)
    /\ inbox' = EmitAll(inbox, Room(k) \ {s}, Ev("user-stopped-typing", userOf(s), None, k))
    /\ ops' = ops + 1
    /\ UNCHANGED <<presenceVars, activeCalls, pendingWrites, dbUser, dbCalls, msgVars,
                   restVars, now>>

\* the roomId values of call rooms (`call:${roomId}`)
CallRooms == {"r1"}

\* socket.on('join-call-room'): the socket joins the call room and
\* user-joined-call goes to the rest of it
JoinCallRoom(s, r) ==
    /\ Ready(s)
    /\ joined' = [joined EXCEPT ![s] = @ \cup {r}]
    /\ inbox' = EmitAll(inbox, Room(r) \ {s}, Ev("user-joined-call", userOf(s), None, r))
    /\ ops' = ops + 1
    /\ UNCHANGED <<sock, connPc, onlineUsers, userSockets, latest, dc, activeCalls,
                   pendingWrites, dbUser, dbCalls, msgVars, restVars, now>>

\* socket.on('leave-call-room'): the socket leaves the call room and
\* user-left-call goes to those in it
LeaveCallRoom(s, r) ==
    /\ Ready(s)
    /\ joined' = [joined EXCEPT ![s] = @ \ {r}]
    /\ inbox' = EmitAll(inbox, Room(r) \ {s}, Ev("user-left-call", userOf(s), None, r))
    /\ ops' = ops + 1
    /\ UNCHANGED <<sock, connPc, onlineUsers, userSockets, latest, dc, activeCalls,
                   pendingWrites, dbUser, dbCalls, msgVars, restVars, now>>

\* the two screen sharing events
ScreenShares == {"screen-share-started", "screen-share-stopped"}

\* socket.on('screen-share-started') and socket.on('screen-share-stopped'):
\* the event goes to the rest of the call room when a roomId is given, of the
\* conversation room otherwise
ScreenShare(s, event, k, r) ==
    /\ Ready(s)
    /\ LET room == IF r # None THEN r ELSE k
       IN  inbox' = EmitAll(inbox, Room(room) \ {s}, Ev(event, userOf(s), None, room))
    /\ ops' = ops + 1
    /\ UNCHANGED <<presenceVars, activeCalls, pendingWrites, dbUser, dbCalls, msgVars,
                   restVars, now>>

\* -------------------------------------- deleting and reacting (HTTP)

\* deleteConversation: the conversation loaded; 404 without one, 403 for a
\* group the requester did not create; Message.deleteMany is issued
DeleteConversationLoad(u, k) ==
    /\ rest[u].pc = "idle"
    /\ ops' = ops + 1
    /\ IF ~Stored(k)
       THEN /\ resp' = [resp EXCEPT ![u] = "404"]
            /\ rest' = rest
       ELSE IF dbConv[k].type = "group" /\ dbConv[k].createdBy # u
       THEN /\ resp' = [resp EXCEPT ![u] = "403"]
            /\ rest' = rest
       ELSE /\ resp' = [resp EXCEPT ![u] = None]
            /\ rest' = [rest EXCEPT ![u] = [pc |-> "deletemsgs", op |-> "delete", conv |-> k]]
    /\ UNCHANGED <<presenceVars, activeCalls, pendingWrites, dbUser, dbCalls, msgVars,
                   inbox, now>>

\* deleteConversation: Message.deleteMany({conversation}) applied,
\* Conversation.findByIdAndDelete issued
DeleteConversationMessages(u) ==
    /\ rest[u].pc = "deletemsgs"
    /\ dbMsgs' = [m \in MsgIds |->
                    IF IsMsg(dbMsgs[m]) /\ dbMsgs[m].conv = rest[u].conv THEN Gone
                    ELSE dbMsgs[m]]
    /\ rest' = [rest EXCEPT ![u].pc = "delete"]
    /\ UNCHANGED <<presenceVars, activeCalls, pendingWrites, dbUser, dbCalls, dbConv, task,
                   resp, inbox, now, ops>>

\* deleteConversation: Conversation.findByIdAndDelete applied, the request
\* ends 200
DeleteConversationDone(u) ==
    /\ rest[u].pc = "delete"
    /\ rest[u].op = "delete"
    /\ dbConv' = [dbConv EXCEPT ![rest[u].conv] = Null]
    /\ rest' = [rest EXCEPT ![u] = Idle]
    /\ resp' = [resp EXCEPT ![u] = "200"]
    /\ UNCHANGED <<presenceVars, activeCalls, pendingWrites, dbUser, dbCalls, dbMsgs, task,
                   inbox, now, ops>>

\* the time after which a message cannot be deleted for everyone
OneHour == 60 * 60 * Second

\* deleteMessageForEveryone: the message loaded; 404 without one, 403 unless
\* the requester sent it, 400 after an hour; the flag is set and the save
\* issued
DeleteMessageLoad(u, m) ==
    /\ rest[u].pc = "idle"
    /\ ops' = ops + 1
    /\ IF ~IsMsg(dbMsgs[m])
       THEN /\ resp' = [resp EXCEPT ![u] = "404"]
            /\ rest' = rest
       ELSE IF dbMsgs[m].sender # u
       THEN /\ resp' = [resp EXCEPT ![u] = "403"]
            /\ rest' = rest
       ELSE IF now - dbMsgs[m].createdAt > OneHour
       THEN /\ resp' = [resp EXCEPT ![u] = "400"]
            /\ rest' = rest
       ELSE /\ resp' = [resp EXCEPT ![u] = None]
            /\ rest' = [rest EXCEPT ![u] =
                  [pc |-> "msgdelete", op |-> "deleteMessage", msg |-> m,
                   conv |-> dbMsgs[m].conv, dirty |-> ~dbMsgs[m].isDeletedForEveryone]]
    /\ UNCHANGED <<presenceVars, activeCalls, pendingWrites, dbUser, dbCalls, msgVars,
                   inbox, now>>

\* deleteMessageForEveryone: message.save() applied (for a message loaded
\* with the flag set no update is sent, the message is looked up);
\* message-deleted goes to the room of the message's conversation and the
\* request ends 200
DeleteMessageSave(u) ==
    /\ rest[u].pc = "msgdelete"
    /\ IsMsg(dbMsgs[rest[u].msg])
    /\ dbMsgs' = IF rest[u].dirty
                 THEN [dbMsgs EXCEPT ![rest[u].msg].isDeletedForEveryone = TRUE]
                 ELSE dbMsgs
    /\ inbox' = EmitAll(inbox, Room(rest[u].conv),
                        Ev("message-deleted", None, None, rest[u].msg))
    /\ rest' = [rest EXCEPT ![u] = Idle]
    /\ resp' = [resp EXCEPT ![u] = "200"]
    /\ UNCHANGED <<presenceVars, activeCalls, pendingWrites, dbUser, dbCalls, dbConv, task,
                   now, ops>>

\* deleteMessageForEveryone: message.save() rejects (as it does when the
\* message is gone)
DeleteMessageSaveFailed(u) ==
    /\ rest[u].pc = "msgdelete"
    /\ RequestFailed(u)
    /\ UNCHANGED <<presenceVars, activeCalls, pendingWrites, dbUser, dbCalls, msgVars,
                   inbox, now, ops>>

\* reactToMessage: the message loaded (404 without one); the requester's
\* reaction is filtered out and, with an emoji, a new one pushed; the save is
\* issued.  The filter reassigns the array only when it removed something.
ReactLoad(u, m, emoji) ==
    /\ rest[u].pc = "idle"
    /\ ops' = ops + 1
    /\ IF ~IsMsg(dbMsgs[m])
       THEN /\ resp' = [resp EXCEPT ![u] = "404"]
            /\ rest' = rest
       ELSE /\ resp' = [resp EXCEPT ![u] = None]
            /\ rest' = [rest EXCEPT ![u] =
                  [pc |-> "reactsave", op |-> "react", msg |-> m, conv |-> dbMsgs[m].conv,
                   v |-> dbMsgs[m].v, set |-> u \in dbMsgs[m].reactions,
                   push |-> emoji # None,
                   reactions |-> (dbMsgs[m].reactions \ {u})
                                    \cup (IF emoji # None THEN {u} ELSE {})]]
    /\ UNCHANGED <<presenceVars, activeCalls, pendingWrites, dbUser, dbCalls, msgVars,
                   inbox, now>>

\* the update of reactToMessage's save matches the stored message: a
\* reassigned array is written only over the version that was loaded
ReactMatches(r) ==
    /\ IsMsg(dbMsgs[r.msg])
    /\ r.set => dbMsgs[r.msg].v = r.v

\* reactToMessage: message.save() applied (when no reaction was removed or
\* added no update is sent, the message is looked up); message-reaction goes
\* to the room of the message's conversation and the request ends 200
ReactSave(u) ==
    /\ rest[u].pc = "reactsave"
    /\ LET r == rest[u] IN
       IF r.set \/ r.push
       THEN /\ ReactMatches(r)
            /\ dbMsgs' = [dbMsgs EXCEPT ![r.msg] =
                  [@ EXCEPT !.reactions = IF r.set THEN r.reactions ELSE @ \cup {u},
                            !.v = @ + 1]]
       ELSE IsMsg(dbMsgs[r.msg]) /\ dbMsgs' = dbMsgs
    /\ inbox' = EmitAll(inbox, Room(rest[u].conv),
                        Ev("message-reaction", u, None, rest[u].msg))
    /\ rest' = [rest EXCEPT ![u] = Idle]
    /\ resp' = [resp EXCEPT ![u] = "200"]
    /\ UNCHANGED <<presenceVars, activeCalls, pendingWrites, dbUser, dbCalls, dbConv, task,
                   now, ops>>

\* reactToMessage: message.save() rejects (VersionError after an overlapping
\* save, or the message is gone)
ReactSaveFailed(u) ==
    /\ rest[u].pc = "reactsave"
    /\ RequestFailed(u)
    /\ UNCHANGED <<presenceVars, activeCalls, pendingWrites, dbUser, dbCalls, msgVars,
                   inbox, now, ops>>

\* deleteMessageForMe: the message loaded (404 without one); a user already
\* in deletedFor gets 200 at once, otherwise the user is pushed and the save
\* issued
DeleteMessageForMeLoad(u, m) ==
    /\ rest[u].pc = "idle"
    /\ ops' = ops + 1
    /\ IF ~IsMsg(dbMsgs[m])
       THEN /\ resp' = [resp EXCEPT ![u] = "404"]
            /\ rest' = rest
       ELSE IF u \in dbMsgs[m].deletedFor
       THEN /\ resp' = [resp EXCEPT ![u] = "200"]
            /\ rest' = rest
       ELSE /\ resp' = [resp EXCEPT ![u] = None]
            /\ rest' = [rest EXCEPT ![u] =
                  [pc |-> "msgsave", op |-> "deleteForMe", msg |-> m,
                   conv |-> dbMsgs[m].conv]]
    /\ UNCHANGED <<presenceVars, activeCalls, pendingWrites, dbUser, dbCalls, msgVars,
                   inbox, now>>

\* deleteMessageForMe: message.save() applied (the push increments __v), the
\* request ends 200
DeleteMessageForMeSave(u) ==
    /\ rest[u].pc = "msgsave"
    /\ rest[u].op = "deleteForMe"
    /\ IsMsg(dbMsgs[rest[u].msg])
    /\ dbMsgs' = [dbMsgs EXCEPT ![rest[u].msg] =
                    [@ EXCEPT !.deletedFor = @ \cup {u}, !.v = @ + 1]]
    /\ rest' = [rest EXCEPT ![u] = Idle]
    /\ resp' = [resp EXCEPT ![u] = "200"]
    /\ UNCHANGED <<presenceVars, activeCalls, pendingWrites, dbUser, dbCalls, dbConv, task,
                   inbox, now, ops>>

\* starMessage: the message loaded (404 without one); a user in starredBy is
\* filtered out of it (the array is reassigned), any other is pushed; the
\* save is issued
StarMessageLoad(u, m) ==
    /\ rest[u].pc = "idle"
    /\ ops' = ops + 1
    /\ IF ~IsMsg(dbMsgs[m])
       THEN /\ resp' = [resp EXCEPT ![u] = "404"]
            /\ rest' = rest
       ELSE /\ resp' = [resp EXCEPT ![u] = None]
            /\ rest' = [rest EXCEPT ![u] =
                  [pc |-> "msgsave", op |-> "star", msg |-> m, conv |-> dbMsgs[m].conv,
                   v |-> dbMsgs[m].v, set |-> u \in dbMsgs[m].starredBy,
                   starredBy |-> dbMsgs[m].starredBy \ {u}]]
    /\ UNCHANGED <<presenceVars, activeCalls, pendingWrites, dbUser, dbCalls, msgVars,
                   inbox, now>>

\* starMessage: message.save() applied, the request ends 200.  The
\* reassigned array is written only over the version that was loaded; either
\* way __v is incremented.
StarMessageSave(u) ==
    /\ rest[u].pc = "msgsave"
    /\ rest[u].op = "star"
    /\ ReactMatches(rest[u])
    /\ dbMsgs' = [dbMsgs EXCEPT ![rest[u].msg] =
                    [@ EXCEPT !.starredBy = IF rest[u].set THEN rest[u].starredBy
                                            ELSE @ \cup {u},
                              !.v = @ + 1]]
    /\ rest' = [rest EXCEPT ![u] = Idle]
    /\ resp' = [resp EXCEPT ![u] = "200"]
    /\ UNCHANGED <<presenceVars, activeCalls, pendingWrites, dbUser, dbCalls, dbConv, task,
                   inbox, now, ops>>

\* message.save() of deleteMessageForMe or starMessage rejects (VersionError
\* after an overlapping save, or the message is gone)
MessageSaveFailed(u) ==
    /\ rest[u].pc = "msgsave"
    /\ RequestFailed(u)
    /\ UNCHANGED <<presenceVars, activeCalls, pendingWrites, dbUser, dbCalls, msgVars,
                   inbox, now, ops>>

\* ------------------------------------------------------- specifications

\* The socket layer from server start: connections of A (twice) and B, their
\* call-user and answer-call signaling with A, B and C as targets, and calls
\* A and C create through the controller.
SigSockets == {"sA1", "sA2", "sB1"}
SigUsers == {"A", "B", "C"}

SigClient ==
    \/ \E s \in SigSockets : ConnectStart(s)
    \/ \E s \in SigSockets : Drop(s)
    \/ \E s \in SigSockets, to \in SigUsers, c \in CallIds : CallUser(s, to, c)
    \/ \E s \in SigSockets, to \in SigUsers, c \in CallIds : AnswerCall(s, to, c)
    \/ \E u \in {"A", "C"}, r \in SigUsers : InitiateCall(u, "audio", FALSE, None, r)

SigInternal ==
    \/ \E u \in SigUsers : InitiateConversation(u)
    \/ \E u \in SigUsers : InitiateCreate(u)
    \/ \E u \in SigUsers : InitiateCallerPopulated(u)
    \/ \E u \in SigUsers : InitiatePopulated(u)
    \/ \E s \in SigSockets : ConnectUserUpdated(s)
    \/ \E s \in SigSockets : ConnectConvsLoaded(s)
    \/ \E s \in SigSockets : DisconnectCallUpdated(s)
    \/ \E s \in SigSockets : DisconnectUserUpdated(s)
    \/ \E w \in BagToSet(pendingWrites) : ApplyWrite(w)

Next == (ops < MaxOps /\ SigClient) \/ SigInternal

Spec == Init /\ [][Next]_vars

\* The call controller with A, B, C and D connected: A starts a call, the
\* callees accept and reject it over HTTP, A and B end it, and B also
\* answers and rejects over its socket.
CallSockets == {"sA1", "sB1", "sC1", "sD1"}

InitCalls ==
    /\ sock = [s \in Sockets |-> IF s \in CallSockets THEN "open" ELSE "new"]
    /\ connPc = [s \in Sockets |-> IF s \in CallSockets THEN "ready" ELSE "none"]
    /\ onlineUsers = [u \in Users |-> CHOOSE s \in CallSockets : userOf(s) = u]
    /\ userSockets = CallSockets
    /\ latest = onlineUsers
    /\ joined = [s \in Sockets |->
                    IF s \in CallSockets
                    THEN {k \in Convs : userOf(s) \in InitConv[k].participants}
                    ELSE {}]
    /\ dc = [s \in Sockets |-> Idle]
    /\ activeCalls = <<>>
    /\ pendingWrites = EmptyBag
    /\ dbUser = [u \in Users |-> [isOnline |-> TRUE, socketId |-> onlineUsers[u]]]
    /\ dbCalls = [c \in CallIds |-> Null]
    /\ dbConv = InitConv
    /\ dbMsgs = [m \in MsgIds |-> Null]
    /\ task = [s \in Sockets |-> Idle]
    /\ rest = [u \in Users |-> Idle]
    /\ resp = [u \in Users |-> None]
    /\ inbox = [s \in Sockets |-> EmptyBag]
    /\ now = 0
    /\ ops = 0

Callers == {"B", "C", "D"}

CallClient ==
    \/ \E type \in CallTypes \cup {"text"}, k \in {"g1", None} \cup NoConvs,
          receiver \in {"B"} \cup NoUsers :
          InitiateCall("A", type, k # None, k, receiver)
    \/ \E u \in Callers, c \in CallIds : AcceptCall(u, c)
    \/ \E u \in Callers, c \in CallIds : RejectCall(u, c)
    \/ \E u \in {"A", "B"}, c \in CallIds : EndCall(u, c)
    \/ \E c \in CallIds : AnswerCall("sB1", "A", c)
    \/ \E c \in CallIds : RejectCallSignal("sB1", "A", c)

CallInternal ==
    \/ InitiateConversation("A")
    \/ InitiateCreate("A")
    \/ InitiateCallerPopulated("A")
    \/ InitiatePopulated("A")
    \/ \E u \in Users : PopulateCaller(u)
    \/ \E u \in Users : PopulateParticipants(u)
    \/ \E u \in Users : AcceptCallSave(u)
    \/ \E u \in Users : RejectCallSave(u)
    \/ \E u \in Users : EndCallSave(u)
    \/ \E w \in BagToSet(pendingWrites) : ApplyWrite(w)
    \/ Tick

NextCalls == (ops < MaxCallOps /\ CallClient) \/ CallInternal

SpecCalls == InitCalls /\ [][NextCalls]_vars

\* The message pipeline with A and B connected: both send to and read the
\* private conversation p1, over their sockets and over HTTP.
MsgSockets == {"sA1", "sB1"}

InitMsg ==
    /\ sock = [s \in Sockets |-> IF s \in MsgSockets THEN "open" ELSE "new"]
    /\ connPc = [s \in Sockets |-> IF s \in MsgSockets THEN "ready" ELSE "none"]
    /\ onlineUsers = [u \in Users |->
                        IF u \in {"A", "B"}
                        THEN CHOOSE s \in MsgSockets : userOf(s) = u ELSE None]
    /\ userSockets = MsgSockets
    /\ latest = onlineUsers
    /\ joined = [s \in Sockets |->
                    IF s \in MsgSockets
                    THEN {k \in Convs : userOf(s) \in InitConv[k].participants}
                    ELSE {}]
    /\ dc = [s \in Sockets |-> Idle]
    /\ activeCalls = <<>>
    /\ pendingWrites = EmptyBag
    /\ dbUser = [u \in Users |->
                    [isOnline |-> u \in {"A", "B"},
                     socketId |-> onlineUsers[u]]]
    /\ dbCalls = [c \in CallIds |-> Null]
    /\ dbConv = InitConv
    /\ dbMsgs = [m \in MsgIds |-> Null]
    /\ task = [s \in Sockets |-> Idle]
    /\ rest = [u \in Users |-> Idle]
    /\ resp = [u \in Users |-> None]
    /\ inbox = [s \in Sockets |-> EmptyBag]
    /\ now = 0
    /\ ops = 0

MsgClient ==
    \/ \E s \in MsgSockets : SendMessage(s, "p1")
    \/ \E s \in MsgSockets : MessagesRead(s, "p1")
    \/ \E u \in {"A", "B"} : MarkAsReadUpdate(u, "p1")
    \/ \E u \in {"A", "B"} : SubmitFind(u, "p1", "sendMessage")

MsgInternal ==
    \/ \E s \in MsgSockets : SendFind(s)
    \/ \E s \in MsgSockets : ReadUpdate(s)
    \/ \E s \in MsgSockets : SendCreate(s)
    \/ \E s \in MsgSockets : SendConvSave(s)
    \/ \E s \in MsgSockets : SendPopulated(s)
    \/ \E s \in MsgSockets : SendMsgSave(s)
    \/ \E s \in MsgSockets : ReadFind(s)
    \/ \E s \in MsgSockets : ReadSave(s)
    \/ \E u \in {"A", "B"} : MarkAsReadFind(u)
    \/ \E u \in {"A", "B"} : MarkAsReadSave(u)
    \/ \E u \in {"A", "B"} : SubmitCreate(u)
    \/ \E u \in {"A", "B"} : SubmitConvSave(u)
    \/ \E u \in {"A", "B"} : SubmitPopulated(u)

NextMsg == (ops < MaxMsgOps /\ MsgClient) \/ MsgInternal

SpecMsg == InitMsg /\ [][NextMsg]_vars

\* The message pipeline with A the only sender: A submits to p1 over the
\* socket and over HTTP and marks p1 read; B stays connected and never reads.
\* Message.create and conversation.save() of send-message may fail.
SendClient ==
    \/ \E k \in {"p1"} \cup NoConvs : SendMessage("sA1", k)
    \/ SubmitFind("A", "p1", "sendMessage")
    \/ MessagesRead("sA1", "p1")
    \/ MarkAsReadUpdate("A", "p1")

SendInternal ==
    \/ SendFind("sA1")
    \/ SendFindNone("sA1")
    \/ ReadUpdate("sA1")
    \/ SendCreate("sA1")
    \/ SendCreateFailed("sA1")
    \/ SendConvSave("sA1")
    \/ SendConvSaveFailed("sA1")
    \/ SendPopulated("sA1")
    \/ SendMsgSave("sA1")
    \/ ReadFind("sA1")
    \/ ReadSave("sA1")
    \/ MarkAsReadFind("A")
    \/ MarkAsReadSave("A")
    \/ SubmitCreate("A")
    \/ SubmitCreateFailed("A")
    \/ SubmitConvSave("A")
    \/ SubmitPopulated("A")

NextSend == (ops < MaxMsgOps /\ SendClient) \/ SendInternal

SpecSend == InitMsg /\ [][NextSend]_vars

\* Membership and authorization: A, C and D are connected; A is a participant
\* of both conversations and admin of the group g1, C and D are participants
\* of g1 only.  C submits to and reads p1 and A sends to g1; members leave
\* g1, are removed from it, added to it or made admin; A calls the group;
\* conversations are deleted.  Saves that overlap, or that follow a
\* deletion, fail.
GroupSenders == {"sA1", "sC1"}

GroupClient ==
    \/ SendMessage("sC1", "p1")
    \/ SendMessage("sA1", "g1")
    \/ \E path \in Paths : SubmitFind("C", "p1", path)
    \/ \E k \in Convs : MessagesRead("sC1", k)
    \/ MarkAsReadUpdate("C", "p1")
    \/ \E u \in {"A", "D"}, k \in Convs : LeaveGroupLoad(u, k)
    \/ \E u \in {"A", "C"}, target \in {"B", "C", "D"} :
          RemoveParticipantLoad(u, target, "g1")
    \/ \E added \in {<<"D">>, <<"D", "D">>} : AddParticipantsLoad("A", added, "g1")
    \/ \E u \in {"A", "C"} : MakeAdminLoad(u, "C", "g1")
    \/ \E u \in {"A", "C"}, k \in Convs : DeleteConversationLoad(u, k)
    \/ InitiateCall("A", "audio", TRUE, "g1", None)

GroupInternal ==
    \/ \E s \in GroupSenders : SendFind(s)
    \/ ReadUpdate("sC1")
    \/ \E s \in GroupSenders : SendCreate(s)
    \/ \E s \in GroupSenders : SendConvSave(s)
    \/ \E s \in GroupSenders : SendPopulated(s)
    \/ \E s \in GroupSenders : SendMsgSave(s)
    \/ ReadFind("sC1")
    \/ ReadSave("sC1")
    \/ MarkAsReadFind("C")
    \/ MarkAsReadSave("C")
    \/ SubmitCreate("C")
    \/ SubmitCreateFailed("C")
    \/ SubmitConvSave("C")
    \/ SubmitPopulated("C")
    \/ \E s \in GroupSenders : SendFindNone(s)
    \/ \E s \in GroupSenders : SendConvSaveFailed(s)
    \/ \E s \in GroupSenders : SendMsgSaveFailed(s)
    \/ ReadSaveFailed("sC1")
    \/ MarkAsReadSaveFailed("C")
    \/ SubmitConvSaveFailed("C")
    \/ \E u \in {"A", "D"} : LeaveGroupSave(u)
    \/ \E u \in {"A", "D"} : LeaveGroupDelete(u)
    \/ \E u \in {"A", "C"} : RemoveParticipantSave(u)
    \/ AddParticipantsSave("A")
    \/ \E u \in {"A", "C"} : MakeAdminSave(u)
    \/ \E u \in Users : MembersSaveFailed(u)
    \/ \E u \in {"A", "C"} : MembersPopulated(u)
    \/ \E u \in {"A", "C"} : DeleteConversationMessages(u)
    \/ \E u \in {"A", "C"} : DeleteConversationDone(u)
    \/ InitiateCreate("A")
    \/ InitiateCallerPopulated("A")
    \/ InitiatePopulated("A")

NextGroup == (ops < MaxGroupOps /\ GroupClient) \/ GroupInternal

SpecGroup == InitCalls /\ [][NextGroup]_vars

\* Call sessions: A, B and C are connected, D is offline.  A and C call B
\* and D over the socket and over HTTP; B answers, rejects and ends over both,
\* reports busy, or drops; C tries calls it has no part in.
SessionSockets == {"sA1", "sB1", "sC1"}
SessionUsers == {"A", "B", "C"}

InitSession ==
    /\ sock = [s \in Sockets |-> IF s \in SessionSockets THEN "open" ELSE "new"]
    /\ connPc = [s \in Sockets |-> IF s \in SessionSockets THEN "ready" ELSE "none"]
    /\ onlineUsers = [u \in Users |->
                        IF u \in SessionUsers
                        THEN CHOOSE s \in SessionSockets : userOf(s) = u ELSE None]
    /\ userSockets = SessionSockets
    /\ latest = onlineUsers
    /\ joined = [s \in Sockets |->
                    IF s \in SessionSockets
                    THEN {k \in Convs : userOf(s) \in InitConv[k].participants}
                    ELSE {}]
    /\ dc = [s \in Sockets |-> Idle]
    /\ activeCalls = <<>>
    /\ pendingWrites = EmptyBag
    /\ dbUser = [u \in Users |->
                    [isOnline |-> u \in SessionUsers, socketId |-> onlineUsers[u]]]
    /\ dbCalls = [c \in CallIds |-> Null]
    /\ dbConv = InitConv
    /\ dbMsgs = [m \in MsgIds |-> Null]
    /\ task = [s \in Sockets |-> Idle]
    /\ rest = [u \in Users |-> Idle]
    /\ resp = [u \in Users |-> None]
    /\ inbox = [s \in Sockets |-> EmptyBag]
    /\ now = 0
    /\ ops = 0

SessionClient ==
    \/ \E r \in {"A", "B", "D"} : InitiateCall("A", "audio", FALSE, None, r)
    \/ \E s \in {"sA1", "sC1"}, to \in {"B", "D"}, c \in CallIds : CallUser(s, to, c)
    \/ \E c \in CallIds : AnswerCall("sB1", "A", c)
    \/ \E c \in CallIds : RejectCallSignal("sB1", "A", c)
    \/ \E c \in CallIds : EndCallSignal("sB1", "A", c)
    \/ \E c \in CallIds : UserBusySignal("sB1", "A", c)
    \/ \E u \in {"B", "C"}, c \in CallIds : AcceptCall(u, c)
    \/ \E c \in CallIds : RejectCall("B", c)
    \/ \E u \in {"A", "B"}, c \in CallIds : EndCall(u, c)
    \/ \E u \in {"B", "C"}, c \in CallIds : NotFound(u, c)
    \/ Drop("sB1")

SessionInternal ==
    \/ InitiateConversation("A")
    \/ InitiateCreate("A")
    \/ InitiateCallerPopulated("A")
    \/ InitiatePopulated("A")
    \/ \E u \in SessionUsers : PopulateCaller(u)
    \/ \E u \in SessionUsers : PopulateParticipants(u)
    \/ AcceptCallSave("B")
    \/ RejectCallSave("B")
    \/ \E u \in {"A", "B"} : EndCallSave(u)
    \/ \E w \in BagToSet(pendingWrites) : ApplyWrite(w)
    \/ DisconnectCallUpdated("sB1")
    \/ DisconnectUserUpdated("sB1")

NextSession == (ops < MaxSessionOps /\ SessionClient) \/ SessionInternal

SpecSession == InitSession /\ [][NextSession]_vars

\* Disconnect cleanup: A, B and C are connected and D connects during the
\* run.  A and C call B and D; B and D drop, D possibly while its connection
\* is still being set up; D logs in and out over HTTP; the User updates of
\* the connection and disconnect handlers and an update of the cleanup loop
\* may fail.  Every awaited operation is answered in the end.
CleanupSockets == {"sB1", "sD1"}

CleanupClient ==
    \/ ConnectStart("sD1")
    \/ InitiateCall("A", "audio", FALSE, None, "B")
    \/ \E s \in {"sA1", "sC1"}, to \in {"B", "D"}, c \in CallIds : CallUser(s, to, c)
    \/ \E s \in CleanupSockets : Drop(s)
    \/ \E valid \in BOOLEAN : LoginLoad("D", valid)
    \/ Logout("D")

CleanupInternal ==
    \/ LoginSave("D")
    \/ InitiateConversation("A")
    \/ InitiateCreate("A")
    \/ InitiateCallerPopulated("A")
    \/ InitiatePopulated("A")
    \/ ConnectUserUpdated("sD1")
    \/ ConnectUserFailed("sD1")
    \/ ConnectConvsLoaded("sD1")
    \/ \E s \in CleanupSockets : DisconnectCallUpdated(s)
    \/ \E s \in CleanupSockets : DisconnectCallFailed(s)
    \/ \E s \in CleanupSockets : DisconnectUserUpdated(s)
    \/ \E s \in CleanupSockets : DisconnectUserFailed(s)
    \/ \E w \in BagToSet(pendingWrites) : ApplyWrite(w)

NextCleanup == (ops < MaxCleanupOps /\ CleanupClient) \/ CleanupInternal

CleanupFairness ==
    /\ WF_vars(ConnectUserUpdated("sD1") \/ ConnectUserFailed("sD1"))
    /\ WF_vars(ConnectConvsLoaded("sD1"))
    /\ \A s \in CleanupSockets :
          /\ WF_vars(DisconnectCallUpdated(s) \/ DisconnectCallFailed(s))
          /\ WF_vars(DisconnectUserUpdated(s) \/ DisconnectUserFailed(s))
    /\ WF_vars(\E w \in BagToSet(pendingWrites) : ApplyWrite(w))
    /\ WF_vars(InitiateConversation("A"))
    /\ WF_vars(InitiateCreate("A"))
    /\ WF_vars(InitiateCallerPopulated("A"))
    /\ WF_vars(InitiatePopulated("A"))
    /\ WF_vars(LoginSave("D"))

SpecCleanup == InitSession /\ [][NextCleanup]_vars /\ CleanupFairness

\* Signal relay: A, B and C are connected, D is offline.  A and B send every
\* relayed event to each other and to D; B may drop.
RelaySenders == {"sA1", "sB1"}
RelayTargets == {"A", "B", "D"}

RelayClient ==
    \/ \E s \in RelaySenders, to \in RelayTargets, c \in CallIds : CallUser(s, to, c)
    \/ \E s \in RelaySenders, to \in RelayTargets, c \in CallIds : AnswerCall(s, to, c)
    \/ \E s \in RelaySenders, to \in RelayTargets, c \in CallIds :
          RejectCallSignal(s, to, c)
    \/ \E s \in RelaySenders, to \in RelayTargets, c \in CallIds : EndCallSignal(s, to, c)
    \/ \E s \in RelaySenders, to \in RelayTargets, c \in CallIds : UserBusySignal(s, to, c)
    \/ \E s \in RelaySenders, to \in RelayTargets, e \in PlainRelays : PlainRelay(s, to, e)
    \/ Drop("sB1")

RelayInternal ==
    \/ \E w \in BagToSet(pendingWrites) : ApplyWrite(w)
    \/ DisconnectCallUpdated("sB1")
    \/ DisconnectUserUpdated("sB1")

NextRelay == (ops < MaxRelayOps /\ RelayClient) \/ RelayInternal

SpecRelay == InitSession /\ [][NextRelay]_vars

\* Delivery tracking: A and B are connected; A sends to p1 over the socket, B
\* reads p1 over the socket and may drop.
DeliverClient ==
    \/ SendMessage("sA1", "p1")
    \/ MessagesRead("sB1", "p1")
    \/ Drop("sB1")

DeliverInternal ==
    \/ SendFind("sA1")
    \/ ReadUpdate("sB1")
    \/ SendCreate("sA1")
    \/ SendConvSave("sA1")
    \/ SendPopulated("sA1")
    \/ SendMsgSave("sA1")
    \/ ReadFind("sB1")
    \/ ReadSave("sB1")
    \/ DisconnectUserUpdated("sB1")

NextDeliver == (ops < MaxDeliverOps /\ DeliverClient) \/ DeliverInternal

SpecDeliver == InitMsg /\ [][NextDeliver]_vars

\* Fan-out: A and B are connected; A connects a second time on sA2 while B
\* sends to p1 and calls A.
FanoutClient ==
    \/ ConnectStart("sA2")
    \/ SendMessage("sB1", "p1")
    \/ \E c \in CallIds : CallUser("sB1", "A", c)

FanoutInternal ==
    \/ ConnectUserUpdated("sA2")
    \/ ConnectConvsLoaded("sA2")
    \/ SendFind("sB1")
    \/ SendCreate("sB1")
    \/ SendConvSave("sB1")
    \/ SendPopulated("sB1")
    \/ SendMsgSave("sB1")

NextFanout == (ops < MaxFanoutOps /\ FanoutClient) \/ FanoutInternal

SpecFanout == InitMsg /\ [][NextFanout]_vars

\* Busy check: A, B and C are connected, D is offline.  A and C call B, C and
\* D over their sockets; B rejects or ends a call, or drops.
BusyClient ==
    \/ \E s \in {"sA1", "sC1"}, to \in {"B", "C", "D"}, c \in CallIds : CallUser(s, to, c)
    \/ \E c \in CallIds : RejectCallSignal("sB1", "A", c)
    \/ \E c \in CallIds : EndCallSignal("sB1", "C", c)
    \/ Drop("sB1")

BusyInternal ==
    \/ \E w \in BagToSet(pendingWrites) : ApplyWrite(w)
    \/ DisconnectCallUpdated("sB1")
    \/ DisconnectUserUpdated("sB1")

NextBusy == (ops < MaxBusyOps /\ BusyClient) \/ BusyInternal

SpecBusy == InitSession /\ [][NextBusy]_vars

\* Rooms: A, B, C and D are connected and subscribed to their conversations.
\* C subscribes to p1, of which it is no participant; B unsubscribes from p1;
\* D leaves g1 or is removed from it by A; A sends, types and shares its
\* screen, B reads and reacts, A deletes a message, C stars a message or
\* deletes it for itself, C joins and leaves a call room.
RoomClient ==
    \/ JoinConversation("sC1", "p1")
    \/ LeaveConversation("sB1", "p1")
    \/ LeaveGroupLoad("D", "g1")
    \/ RemoveParticipantLoad("A", "D", "g1")
    \/ \E k \in Convs : SendMessage("sA1", k)
    \/ \E k \in Convs : TypingStart("sA1", k)
    \/ \E k \in Convs : TypingStop("sA1", k)
    \/ \E e \in ScreenShares, r \in CallRooms \cup {None} : ScreenShare("sA1", e, "p1", r)
    \/ \E r \in CallRooms : JoinCallRoom("sC1", r)
    \/ \E r \in CallRooms : LeaveCallRoom("sC1", r)
    \/ MessagesRead("sB1", "p1")
    \/ \E m \in MsgIds, emoji \in {"e1", None} : ReactLoad("B", m, emoji)
    \/ \E m \in MsgIds : DeleteMessageLoad("A", m)
    \/ \E m \in MsgIds : DeleteMessageForMeLoad("C", m)
    \/ \E m \in MsgIds : StarMessageLoad("C", m)

RoomInternal ==
    \/ SendFind("sA1")
    \/ ReadUpdate("sB1")
    \/ SendCreate("sA1")
    \/ SendConvSave("sA1")
    \/ SendPopulated("sA1")
    \/ SendMsgSave("sA1")
    \/ ReadFind("sB1")
    \/ ReadSave("sB1")
    \/ LeaveGroupSave("D")
    \/ RemoveParticipantSave("A")
    \/ \E u \in {"A", "D"} : MembersSaveFailed(u)
    \/ MembersPopulated("A")
    \/ ReactSave("B")
    \/ ReactSaveFailed("B")
    \/ DeleteMessageSave("A")
    \/ DeleteMessageSaveFailed("A")
    \/ DeleteMessageForMeSave("C")
    \/ StarMessageSave("C")
    \/ MessageSaveFailed("C")

NextRoom == (ops < MaxRoomOps /\ RoomClient) \/ RoomInternal

SpecRoom == InitCalls /\ [][NextRoom]_vars

\* ------------------------------------------------------------------ claims

\* the user's most recently connected connection is still open
Connected(u) == latest[u] # None /\ sock[latest[u]] = "open"

\* the connection of s closes in this step
Drops(s) == sock[s] = "open" /\ sock'[s] = "closed"

\* C1: while the most recently connected connection of a user is open,
\* lookup(userId) returns that connection; lookup never returns a superseded
\* connection.
C1_LookupIsLatest ==
    \A u \in Users :
        /\ Connected(u) => lookup(u) = latest[u]
        /\ lookup(u) # None => lookup(u) = latest[u]

\* C2: the disconnect of a connection that a newer connection of the same
\* user has superseded leaves the user's registry entry on the newer one.
C2_StaleDisconnectNoOp ==
    [][\A s \in Sockets :
          (Drops(s) /\ latest[userOf(s)] # s /\ lookup(userOf(s)) = latest[userOf(s)])
              => lookup(userOf(s))' = latest[userOf(s)]]_vars

\* the stage of a message status
Rank(status) == CASE status = "sent" -> 0 [] status = "delivered" -> 1 [] OTHER -> 2

\* C3: the stored status of a message only advances sent -> delivered ->
\* read, also where a send-message and a messages-read of one conversation
\* interleave at their awaits.
C3_StatusMonotonic ==
    [][\A m \in MsgIds :
          IsMsg(dbMsgs[m]) => Rank(dbMsgs'[m].status) >= Rank(dbMsgs[m].status)]_vars

\* the user is in the participant set of an active call other than c
Engaged(u, c) ==
    \E i \in InSession(activeCalls, u) : activeCalls[i].callId # c

\* the sockets of a user
SocketsOf(u) == {s \in Sockets : userOf(s) = u}

\* events of one type about call c in the inbox of s, whoever they are from
CountType(ib, s, type, c) ==
    LET es == {e \in BagToSet(ib[s]) : e.type = type /\ e.call = c}
        RECURSIVE Sum(_)
        Sum(S) == IF S = {} THEN 0
                  ELSE LET e == CHOOSE x \in S : TRUE
                       IN  CopiesIn(e, ib[s]) + Sum(S \ {e})
    IN  Sum(es)

\* C4: a call initiation naming a callee who is in the participant set of
\* another active call does not ring the callee: the callee's entry of the new
\* call is 'busy' (not 'pending'), the callee gets no invitation for it, and
\* the caller gets a busy notification.  Both initiation paths are covered:
\* initiateCall (the Call document appears, the invitations go out after the
\* populates) and the call-user event.
C4_BusyCalleeNotRung ==
    [][/\ \A c \in CallIds :
            (dbCalls[c] = Null /\ dbCalls'[c] # Null) =>
                \A i \in DOMAIN dbCalls'[c].parts :
                    Engaged(dbCalls'[c].parts[i].user, c)
                        => dbCalls'[c].parts[i].status = "busy"
       /\ \A u \in Users :
            InitiatePopulated(u) =>
                \A b \in Range(rest[u].callees) :
                    Engaged(b, rest[u].call) =>
                        /\ \A s \in SocketsOf(b) :
                              CountType(inbox', s, "incoming-call", rest[u].call)
                                  = CountType(inbox, s, "incoming-call", rest[u].call)
                        /\ \E s \in SocketsOf(u) :
                              CountType(inbox', s, "user-busy", rest[u].call)
                                  > CountType(inbox, s, "user-busy", rest[u].call)
       /\ \A s \in Sockets, b \in Users, c \in CallIds :
            (CallUser(s, b, c) /\ Engaged(b, c)) =>
                /\ \A i \in IndexOf(activeCalls', c) : b \notin activeCalls'[i].participants
                /\ \A t \in SocketsOf(b) :
                      CountType(inbox', t, "incoming-call-signal", c)
                          = CountType(inbox, t, "incoming-call-signal", c)
                /\ CountType(inbox', s, "user-busy", c)
                      = CountType(inbox, s, "user-busy", c) + 1
                /\ dbCalls[c] # Null =>
                      \A i \in DOMAIN dbCalls[c].parts :
                          dbCalls[c].parts[i].user = b
                              => dbCalls'[c].parts[i].status # "pending"]_vars

\* C5: two accepts of one ringing call that overlap between load and save do
\* not both take the first-accept branch (ringing -> ongoing, startedAt).
C5_OneFirstAccept ==
    \A u \in Users : \A v \in Users \ {u} :
        (/\ rest[u].pc = "save" /\ rest[u].op = "accept"
         /\ rest[v].pc = "save" /\ rest[v].op = "accept"
         /\ rest[u].call = rest[v].call)
            => ~(rest[u].first /\ rest[v].first)

\* C6: whenever a call's stored status becomes 'rejected', every participant
\* entry of the call is 'rejected'.
C6_RejectedOnlyIfAllRejected ==
    [][\A c \in CallIds :
          (dbCalls[c] # Null /\ dbCalls[c].status # "rejected"
              /\ dbCalls'[c].status = "rejected")
                => AllRejected(dbCalls'[c])]_vars

\* C7: a call whose stored status is 'ongoing' has a participant entry with
\* status 'accepted'.
C7_OngoingHasAccepted ==
    \A c \in CallIds :
        (dbCalls[c] # Null /\ dbCalls[c].status = "ongoing")
            => \E i \in DOMAIN dbCalls[c].parts : dbCalls[c].parts[i].status = "accepted"

\* a reject of call c is between its load and its save
RejectInFlight(c) ==
    \E u \in Users : rest[u].pc = "save" /\ rest[u].op = "reject" /\ rest[u].call = c

\* C8: in a group call, once every participant's reject has completed (in any
\* order, overlapping or not) the call is 'rejected' with endedAt set; each
\* completing reject gives the caller exactly one call-rejected.
C8_AllRejectGroup ==
    [][/\ \A c \in CallIds :
            (/\ dbCalls'[c] # Null
             /\ dbCalls'[c].isGroupCall
             /\ AllRejected(dbCalls'[c])
             /\ ~RejectInFlight(c)')
                => dbCalls'[c].status = "rejected" /\ dbCalls'[c].endedAt # NoTime
       /\ \A u \in Users :
            RejectCallSave(u) =>
                LET c == rest[u].call
                    a == lookup(dbCalls[c].caller)
                IN  a # None =>
                        CountType(inbox', a, "call-rejected", c)
                            = CountType(inbox, a, "call-rejected", c) + 1]_vars

\* C9: when the connection of a user drops while the user is in an active
\* call session, the session entry is removed, every other participant with a
\* connection receives call-ended with reason 'disconnect' on it, and the Call
\* is stored 'ended' with endedAt set (the update is issued with the drop and
\* applied when the handler resumes).  Stated for the first session the loop
\* meets; the later ones follow after the awaited update.
C9_DisconnectEndsCall ==
    [][/\ \A s \in Sockets :
            (Drops(s) /\ InSession(activeCalls, userOf(s)) # {}) =>
                LET e == activeCalls[Min(InSession(activeCalls, userOf(s)))]
                    ended == Ev("call-ended", userOf(s), e.callId, "disconnect")
                IN  /\ ~HasCall(activeCalls', e.callId)
                    /\ \A p \in e.participants \ {userOf(s)} :
                          Connected(p) =>
                              CopiesIn(ended, inbox'[latest[p]])
                                  = CopiesIn(ended, inbox[latest[p]]) + 1
                    /\ dc'[s].pc = "await_call"
                    /\ dc'[s].callId = e.callId
       /\ \A s \in Sockets :
            (dc[s].pc = "await_call" /\ dc'[s] # dc[s]
                /\ dbCalls[dc[s].callId] # Null) =>
                    /\ dbCalls'[dc[s].callId].status = "ended"
                    /\ dbCalls'[dc[s].callId].endedAt # NoTime]_vars

\* C10: with caller and callee connected and the callee in no active session,
\* call-user delivers exactly one incoming-call-signal for the call to the
\* callee's current connection; with the caller connected, the callee's
\* answer-call delivers call-accepted to the caller's current connection and
\* issues the update that leaves the Call 'ongoing' with startedAt set.
C10_CallThenAnswer ==
    [][/\ \A s \in Sockets, b \in Users, c \in CallIds :
            (CallUser(s, b, c) /\ Connected(b) /\ ~IsBusy(activeCalls, b)) =>
                \A t \in SocketsOf(b) :
                    CountType(inbox', t, "incoming-call-signal", c)
                        = CountType(inbox, t, "incoming-call-signal", c)
                            + (IF t = latest[b] THEN 1 ELSE 0)
       /\ \A s \in Sockets, a \in Users, c \in CallIds :
            (AnswerCall(s, a, c) /\ Connected(a)) =>
                /\ CountType(inbox', latest[a], "call-accepted", c)
                      = CountType(inbox, latest[a], "call-accepted", c) + 1
                /\ Update(c, "ongoing", now, NoTime) \in BagToSet(pendingWrites')
       /\ \A w \in BagToSet(pendingWrites) :
            (ApplyWrite(w) /\ w.status = "ongoing" /\ dbCalls[w.call] # Null) =>
                /\ dbCalls'[w.call].status = "ongoing"
                /\ dbCalls'[w.call].startedAt # NoTime]_vars

\* the other participants of the conversation a socket's send-message targets
Peers(s) == dbConv[task[s].conv].participants \ {userOf(s)}

\* C11: a send-message of A to a conversation with B in the registry:
\* message.save() is issued for status 'delivered'; new-message reaches every
\* subscribed connection while no message-status-update of the message has
\* been published, so B's subscribed connection already holds new-message
\* when message-status-update is published (subscriptions are not taken up
\* during a send), and the send leaves B's stored counter one higher than it found
\* it: the handler takes the counter as stored when it loads the
\* conversation, adds one, and conversation.save() stores that value.
C11_NewMessageThenDelivered ==
    [][\A s \in Sockets :
          /\ (SendPopulated(s) /\ \E p \in Peers(s) : lookup(p) # None)
                => task'[s].pc = "msgsave"
          /\ SendPopulated(s) =>
                /\ \A t \in Room(task[s].conv) :
                      CopiesIn(Ev("new-message", userOf(s), None, task[s].msg), inbox'[t])
                          = Count(t, Ev("new-message", userOf(s), None, task[s].msg)) + 1
                /\ \A t \in Sockets :
                      Count(t, Ev("message-status-update", None, None, task[s].msg)) = 0
          /\ SendMsgSave(s) =>
                /\ \A t \in Room(task[s].conv) :
                      /\ Count(t, Ev("new-message", userOf(s), None, task[s].msg)) >= 1
                      /\ CopiesIn(Ev("message-status-update", None, None, task[s].msg),
                                  inbox'[t])
                            = Count(t, Ev("message-status-update", None, None,
                                          task[s].msg)) + 1
                /\ dbMsgs'[task[s].msg].status = "delivered"
          /\ SendFind(s) =>
                \A p \in Peers(s) :
                    Unread(task'[s].doc, p) = Unread(dbConv[task[s].conv], p)
          /\ SendCreate(s) =>
                \A p \in Peers(s) :
                    Unread(task'[s].doc, p) = Unread(task[s].doc, p) + 1
          /\ SendConvSave(s) =>
                \A p \in Peers(s) :
                    Unread(dbConv'[task[s].conv], p) = Unread(task[s].doc, p)]_vars

\* B, in the registry, holds new-message and message-status-update of a
\* delivered message of A, and B's counter is the one that send stored
C11_Witness ==
    /\ lookup("B") = "sB1"
    /\ task["sA1"] = Idle
    /\ \E m \in MsgIds :
          /\ IsMsg(dbMsgs[m]) /\ dbMsgs[m].sender = "A" /\ dbMsgs[m].status = "delivered"
          /\ Count("sB1", Ev("new-message", "A", None, m)) = 1
          /\ Count("sB1", Ev("message-status-update", None, None, m)) = 1
          /\ dbConv["p1"].lastMessage = m
    /\ Unread(dbConv["p1"], "B") = 1

\* the users with an entry in a readBy array
Readers(msg) == {msg.readBy[i] : i \in 1..Len(msg.readBy)}

\* every message of k from another sender carries a readBy entry of u, and
\* there is one, and u has no markRead under way: u has marked k read and no
\* message has come since
Covered(u, k) ==
    /\ \A s \in SocketsOf(u) : task[s].pc \notin {"readfind", "readsave"}
    /\ rest[u].pc \notin {"readfind", "readsave"}
    /\ \E m \in MsgIds : IsMsg(dbMsgs[m]) /\ dbMsgs[m].conv = k /\ dbMsgs[m].sender # u
    /\ \A m \in MsgIds :
          (IsMsg(dbMsgs[m]) /\ dbMsgs[m].conv = k /\ dbMsgs[m].sender # u)
              => u \in Readers(dbMsgs[m])

\* C12: a markRead of a conversation the reader has already marked read, with
\* no new message since, changes no stored message (status, readBy) and leaves
\* the reader's counter as the first call left it, over the socket and over HTTP.
C12_MarkReadIdempotent ==
    [][\A k \in Convs :
          /\ \A s \in Sockets :
                /\ (ReadUpdate(s) /\ task[s].conv = k /\ Covered(userOf(s), k))
                      => dbMsgs' = dbMsgs
                /\ (ReadSave(s) /\ task[s].conv = k
                        /\ ~ResetIsDirty(dbConv[k], userOf(s)))
                      => dbConv' = dbConv
          /\ \A u \in Users :
                /\ (MarkAsReadUpdate(u, k) /\ Covered(u, k)) => dbMsgs' = dbMsgs
                /\ (MarkAsReadSave(u) /\ rest[u].conv = k
                        /\ ~ResetIsDirty(dbConv[k], u))
                      => dbConv' = dbConv]_vars

\* the submission of message m has saved the conversation: it is at its
\* populates or its message.save(), or it has published the message
Saved(m) ==
    \/ \E s \in Sockets : task[s].pc \in {"populate", "msgsave"} /\ task[s].msg = m
    \/ \E u \in Users : rest[u].pc = "populate" /\ rest[u].msg = m
    \/ \E t \in Sockets : Count(t, Ev("new-message", dbMsgs[m].sender, None, m)) >= 1

\* the messages of conversation k, from senders other than p, whose
\* submission has saved the conversation
Submitted(k, p) ==
    {m \in MsgIds :
        IsMsg(dbMsgs[m]) /\ dbMsgs[m].conv = k /\ dbMsgs[m].sender # p /\ Saved(m)}

\* C13: with B never marking p1 read, B's stored counter equals the number of
\* submissions to p1 that have saved the conversation, however the
\* submissions interleave, and lastMessage is one of the submitted messages.
C13_NoIncrementLost ==
    /\ Unread(dbConv["p1"], "B") = Cardinality(Submitted("p1", "B"))
    /\ Submitted("p1", "B") # {} => dbConv["p1"].lastMessage \in Submitted("p1", "B")

\* C14: a submission by a user outside the participants of the conversation
\* is refused on every path (403 over HTTP, the handler ending at once on the
\* socket) and no message is ever created for a sender outside the
\* participants of its conversation.
C14_OnlyParticipantsSubmit ==
    [][/\ \A u \in Users, k \in Convs, path \in Paths :
            (SubmitFind(u, k, path) /\ u \notin dbConv[k].participants)
                => resp'[u] = "403" /\ rest'[u] = Idle
       /\ \A s \in Sockets, k \in Convs :
            (SendFind(s) /\ task[s].conv = k
                    /\ userOf(s) \notin dbConv[k].participants)
                => task'[s] = Idle
       /\ \A m \in MsgIds :
            (dbMsgs[m] = Null /\ IsMsg(dbMsgs'[m]))
                => dbMsgs'[m].sender \in dbConv[dbMsgs'[m].conv].participants]_vars

\* C15: the keys of a conversation's unreadCount map are among its participants.
C15_CountersOnlyForParticipants ==
    \A k \in Convs :
        dbConv[k] # Null => DOMAIN dbConv[k].unreadCount \subseteq dbConv[k].participants

\* C16: a stored Call with startedAt and endedAt set has duration equal to
\* the whole seconds from startedAt to endedAt, and not negative.
C16_DurationIsElapsed ==
    \A c \in CallIds :
        (dbCalls[c] # Null /\ dbCalls[c].startedAt # NoTime /\ dbCalls[c].endedAt # NoTime)
            => /\ dbCalls[c].duration = (dbCalls[c].endedAt - dbCalls[c].startedAt) \div Second
               /\ dbCalls[c].duration >= 0

\* the live and the terminal statuses of a Call
Live == {"ringing", "ongoing"}
Terminal == {"ended", "rejected", "missed"}

\* C17: the stored Call of every entry of the active-session registry has
\* status ringing or ongoing.
C17_SessionOnlyWhileLive ==
    \A i \in 1..Len(activeCalls) :
        dbCalls[activeCalls[i].callId] # Null
            => dbCalls[activeCalls[i].callId].status \in Live

\* an update that will store a terminal status for call c is issued and not
\* yet applied
Ending(c) ==
    \/ \E w \in BagToSet(pendingWrites) : w.call = c /\ w.status \in Terminal
    \/ \E s \in Sockets : dc[s].pc = "await_call" /\ dc[s].callId = c

\* C18: when the stored status of a call becomes terminal its session entry
\* is gone, and a session entry of a stored call is removed only when the
\* call is terminal or the update that ends it has been issued.
C18_SessionEndsWithCall ==
    [][\A c \in CallIds :
          /\ (dbCalls[c] # Null /\ dbCalls[c].status \in Live
                /\ dbCalls'[c].status \in Terminal)
                    => ~HasCall(activeCalls', c)
          /\ (HasCall(activeCalls, c) /\ ~HasCall(activeCalls', c) /\ dbCalls[c] # Null)
                    => (dbCalls'[c].status \in Terminal \/ Ending(c)')]_vars

\* call-user naming a callee with no entry in the presence registry: nothing
\* is delivered to any connection but the caller's, which gets
\* user-unavailable; no session entry is created or extended; the update that
\* stores status 'missed' is issued and, applied to a stored Call, leaves
\* it 'missed'
CallUserOffline ==
    /\ \A s \in Sockets, b \in Users, c \in CallIds :
          (CallUser(s, b, c) /\ lookup(b) = None) =>
              /\ \A t \in Sockets \ {s} : inbox'[t] = inbox[t]
              /\ CountType(inbox', s, "incoming-call-signal", c)
                    = CountType(inbox, s, "incoming-call-signal", c)
              /\ CopiesIn(Ev("user-unavailable", b, None, None), inbox'[s])
                    = CopiesIn(Ev("user-unavailable", b, None, None), inbox[s]) + 1
              /\ activeCalls' = activeCalls
              /\ Update(c, "missed", NoTime, NoTime) \in BagToSet(pendingWrites')
    /\ \A w \in BagToSet(pendingWrites) :
          (ApplyWrite(w) /\ w.status = "missed" /\ dbCalls[w.call] # Null)
              => dbCalls'[w.call].status = "missed"

\* the call-user half of C19 on its own
CallUserOfflineMissed == [][CallUserOffline]_vars

\* a Call created by initiateCall for a callee with no entry in the presence
\* registry is 'missed', as a whole or in the callee's entry, and no
\* invitation for it is delivered to the callee when the invitations go out
InitiateOffline ==
    /\ \A c \in CallIds :
          (dbCalls[c] = Null /\ dbCalls'[c] # Null) =>
              \A i \in DOMAIN dbCalls'[c].parts :
                  lookup(dbCalls'[c].parts[i].user) = None =>
                      dbCalls'[c].status = "missed" \/ dbCalls'[c].parts[i].status = "missed"
    /\ \A u \in Users :
          InitiatePopulated(u) =>
              \A b \in Range(rest[u].callees) :
                  lookup(b) = None =>
                      \A t \in SocketsOf(b) :
                          CountType(inbox', t, "incoming-call", rest[u].call)
                              = CountType(inbox, t, "incoming-call", rest[u].call)

\* C19: a call initiation naming a callee with no live connection in the
\* presence registry delivers no invitation, tells the caller the user is
\* unavailable, leaves the call or the callee's entry 'missed' and creates or
\* extends no session entry, over call-user and over initiateCall.
C19_OfflineCalleeMissed == [][CallUserOffline /\ InitiateOffline]_vars

\* an accept or a reject of call c by user u is to fail: no such call is
\* stored, or u has no entry in its participants
Unentitled(u, c) == dbCalls[c] = Null \/ u \notin PartUsers(dbCalls[c])

\* C20: an accept or a reject of a call that does not exist, or by a user
\* outside the call's participants, fails and changes nothing: over HTTP the
\* request ends 404 or 403 with the Call records and every inbox as they
\* were, and only a participant of a stored call reaches the save; over the
\* socket (answer-call, reject-call) no call-accepted or call-rejected is
\* delivered and no update of a stored Call is issued.
C20_AcceptRejectGuarded ==
    [][/\ \A u \in Users :
          /\ \A c \in CallIds :
                NotFound(u, c) =>
                    resp'[u] = "404" /\ dbCalls' = dbCalls /\ inbox' = inbox /\ rest' = rest
          /\ (/\ rest[u].pc = "callpopulate" /\ rest[u].op # "end"
              /\ u \notin PartUsers(rest[u].doc)
              /\ rest'[u].pc # "callpopulate")
                => /\ resp'[u] = "403" /\ rest'[u] = Idle
                   /\ dbCalls' = dbCalls /\ inbox' = inbox
          /\ (AcceptCallSave(u) \/ RejectCallSave(u)) =>
                u \in PartUsers(dbCalls[rest[u].call])
       /\ \A s \in Sockets, to \in Users, c \in CallIds :
            ((AnswerCall(s, to, c) \/ RejectCallSignal(s, to, c))
                /\ Unentitled(userOf(s), c)) =>
                /\ \A t \in Sockets :
                      /\ CountType(inbox', t, "call-accepted", c)
                            = CountType(inbox, t, "call-accepted", c)
                      /\ CountType(inbox', t, "call-rejected", c)
                            = CountType(inbox, t, "call-rejected", c)
                /\ dbCalls[c] # Null => pendingWrites' = pendingWrites]_vars

\* an accept of call c takes effect in this step: the save of an acceptCall
\* request, or the update issued by an answer-call
AcceptApplies(c) ==
    \/ \E u \in Users : AcceptCallSave(u) /\ rest[u].call = c
    \/ \E w \in BagToSet(pendingWrites) : ApplyWrite(w) /\ w.call = c /\ w.status = "ongoing"

\* C21: an accept of a call that a first accept has taken out of 'ringing'
\* leaves the call's status and startedAt as the first accept set them.
C21_LaterAcceptKeepsStart ==
    [][\A c \in CallIds :
          (/\ dbCalls[c] # Null
           /\ dbCalls[c].status # "ringing"
           /\ dbCalls[c].startedAt # NoTime
           /\ AcceptApplies(c)) =>
              /\ dbCalls'[c].status = dbCalls[c].status
              /\ dbCalls'[c].startedAt = dbCalls[c].startedAt]_vars

\* the sockets the presence registry holds for the caller and the
\* participants of a stored call
LiveSocketsOf(doc) ==
    {lookup(p) : p \in PartUsers(doc) \cup {doc.caller}} \ {None}

\* endCall of u takes effect: the Call is 'ended' with the request's time as
\* endedAt, leftAt is set exactly where the stored entry had none, and
\* call-ended with the stored duration reaches the caller's and every
\* participant's live connection
EndCallEnds ==
    \A u \in Users :
        EndCallSave(u) =>
            LET c == rest[u].call
                e == EvN("call-ended", u, c, "api", dbCalls'[c].duration)
            IN  /\ dbCalls'[c].status = "ended"
                /\ dbCalls'[c].endedAt = rest[u].doc.endedAt
                /\ \A i \in DOMAIN dbCalls[c].parts :
                      IF dbCalls[c].parts[i].leftAt # NoTime
                      THEN dbCalls'[c].parts[i].leftAt = dbCalls[c].parts[i].leftAt
                      ELSE dbCalls'[c].parts[i].leftAt = rest[u].doc.endedAt
                /\ \A s \in LiveSocketsOf(dbCalls[c]) :
                      CopiesIn(e, inbox'[s]) > CopiesIn(e, inbox[s])

\* the REST half of C22 on its own
EndCallEndsCall == [][EndCallEnds]_vars

\* end-call of a stored call ends it: the Call is 'ended', or the write
\* that makes it so is issued
EndSignalEnds ==
    \A s \in Sockets, to \in Users, c \in CallIds :
        (EndCallSignal(s, to, c) /\ dbCalls[c] # Null) =>
            \/ dbCalls'[c].status = "ended" /\ dbCalls'[c].endedAt # NoTime
            \/ \E w \in BagToSet(pendingWrites') : w.call = c /\ w.status = "ended"

\* C22: end sets the Call 'ended' with endedAt, sets leftAt exactly for the
\* participants that had none, and sends call-ended with the duration to the
\* caller and to every participant with a live connection, over endCall and
\* over end-call.
C22_EndEndsCall == [][EndCallEnds /\ EndSignalEnds]_vars

\* C23: after the connection of a user drops, in the end no session entry
\* holds the user, whether or not an update of the cleanup loop fails, and
\* every update of the loop that is applied to a stored Call leaves it
\* 'ended' with endedAt set.
C23_CleanupCompletes ==
    /\ \A s \in CleanupSockets :
          (sock[s] = "closed") ~> (InSession(activeCalls, userOf(s)) = {})
    /\ [][\A s \in CleanupSockets :
            (DisconnectCallUpdated(s) /\ dbCalls[dc[s].callId] # Null) =>
                /\ dbCalls'[dc[s].callId].status = "ended"
                /\ dbCalls'[dc[s].callId].endedAt # NoTime]_vars

\* C24: a connection whose setup awaits the User update ends up, unless it
\* drops, with its user in the presence registry, its conversation rooms
\* joined and its handlers installed, also when that update fails.
C24_SetupSurvivesFailedUpdate ==
    \A s \in CleanupSockets :
        (sock[s] = "open" /\ connPc[s] = "await_user") ~>
            \/ sock[s] = "closed"
            \/ /\ Ready(s)
               /\ lookup(userOf(s)) = s
               /\ joined[s] = {k \in Convs : userOf(s) \in dbConv[k].participants}

\* C25: lookup never returns a connection that has dropped, at whatever
\* point of its life the drop came.
C25_DroppedNeverLookedUp ==
    \A u \in Users : lookup(u) # None => sock[lookup(u)] # "closed"

\* socket s sends a relayed signaling event addressed to the user `to`
RelayedTo(s, to) ==
    \/ \E c \in CallIds : CallUser(s, to, c) /\ ~(lookup(to) # None /\ IsBusy(activeCalls, to))
    \/ \E c \in CallIds : AnswerCall(s, to, c)
    \/ \E c \in CallIds : RejectCallSignal(s, to, c)
    \/ \E c \in CallIds : EndCallSignal(s, to, c)
    \/ \E c \in CallIds : UserBusySignal(s, to, c)
    \/ \E e \in PlainRelays : PlainRelay(s, to, e)

\* C26: a relayed signaling event to a target without an entry in the
\* presence registry gives the sender one user-unavailable and delivers
\* nothing else; to a target with an entry it delivers one event, on the
\* target's registered connection.
C26_RelayOrUnavailable ==
    [][\A s \in Sockets, to \in Users :
          RelayedTo(s, to) =>
              IF lookup(to) = None
              THEN /\ CopiesIn(Ev("user-unavailable", to, None, None), inbox'[s])
                        = CopiesIn(Ev("user-unavailable", to, None, None), inbox[s]) + 1
                   /\ \A t \in Sockets \ {s} : inbox'[t] = inbox[t]
              ELSE /\ BagCardinality(inbox'[lookup(to)])
                        = BagCardinality(inbox[lookup(to)]) + 1
                   /\ \A t \in Sockets \ {lookup(to)} : inbox'[t] = inbox[t]]_vars

\* a submission that stored message m has not yet reached its publication
Publishing(m) ==
    \/ \E s \in Sockets : task[s].pc \in {"convsave", "populate"} /\ task[s].msg = m
    \/ \E u \in Users : rest[u].pc \in {"convsave", "populate"} /\ rest[u].msg = m

\* C27: a stored message whose submission is over was published as
\* new-message to the connections in the room of its conversation, whether or
\* not the save of the conversation failed.
C27_StoredMessagePublished ==
    \A m \in MsgIds :
        (IsMsg(dbMsgs[m]) /\ ~Publishing(m)) =>
            \A s \in Room(dbMsgs[m].conv) :
                Count(s, Ev("new-message", dbMsgs[m].sender, None, m)) >= 1

\* the events of a type delivered to socket t
OfType(ib, t, type) == {e \in BagToSet(ib[t]) : e.type = type}

\* C28: when Message.create of a send-message fails, the send is over: no
\* message is stored, no conversation changes, nothing is published, and
\* the sender's connection gets one error event; every new-message and every
\* message-status-update ever delivered names a stored message.
C28_FailedCreateAborts ==
    /\ [][\A s \in Sockets :
            SendCreateFailed(s) =>
                /\ dbMsgs' = dbMsgs
                /\ dbConv' = dbConv
                /\ task'[s] = Idle
                /\ CopiesIn(Ev("error", None, None, None), inbox'[s])
                      = CopiesIn(Ev("error", None, None, None), inbox[s]) + 1
                /\ \A t \in Sockets :
                      /\ OfType(inbox', t, "new-message") = OfType(inbox, t, "new-message")
                      /\ OfType(inbox', t, "message-status-update")
                            = OfType(inbox, t, "message-status-update")]_vars
    /\ [](\A t \in Sockets :
            \A e \in OfType(inbox, t, "new-message")
                        \cup OfType(inbox, t, "message-status-update") :
                e.x \in MsgIds /\ dbMsgs[e.x] # Null)

\* the sender was told of a failure and nothing was stored or published
C28_Witness ==
    /\ Count("sA1", Ev("error", None, None, None)) >= 1
    /\ \A m \in MsgIds : dbMsgs[m] = Null
    /\ dbConv = InitConv
    /\ \A t \in Sockets : OfType(inbox, t, "new-message") = {}
    /\ task["sA1"] = Idle

\* the participants of the conversation a send loaded, other than the
\* sender, that the presence registry holds
OnlinePeers(s) == {p \in task[s].doc.participants \ {userOf(s)} : lookup(p) # None}

\* C29: the delivery step of a send records exactly the other participants
\* the presence registry holds; with none, the send ends there and the
\* message keeps its status; otherwise the save stores a deliveredTo entry
\* for each of their entries in participants with status 'delivered' and a
\* message-status-update goes to the room.  A message has deliveredTo
\* entries if and only if a message-status-update was published for it, and
\* then it is past 'sent'.
C29_DeliveredToOnlinePeers ==
    /\ [][/\ \A s \in Sockets :
               SendPopulated(s) =>
                   IF OnlinePeers(s) = {}
                   THEN task'[s] = Idle /\ dbMsgs' = dbMsgs
                   ELSE /\ task'[s].pc = "msgsave"
                        /\ Range(task'[s].delivered) = OnlinePeers(s)
                        /\ \A p \in OnlinePeers(s) :
                              Occurs(task'[s].delivered, p)
                                  = Occurs(task[s].doc.order, p)
          /\ \A s \in Sockets :
               SendMsgSave(s) =>
                   LET m == task[s].msg
                       e == Ev("message-status-update", None, None, m)
                   IN  /\ dbMsgs'[m].deliveredTo = task[s].delivered
                       /\ dbMsgs'[m].status = "delivered"
                       /\ \A t \in Room(task[s].conv) :
                             CopiesIn(e, inbox'[t]) = CopiesIn(e, inbox[t]) + 1]_vars
    /\ [](\A m \in MsgIds :
            IsMsg(dbMsgs[m]) =>
                /\ dbMsgs[m].deliveredTo # <<>> <=>
                      \E t \in Sockets :
                          Count(t, Ev("message-status-update", None, None, m)) >= 1
                /\ dbMsgs[m].deliveredTo # <<>> => dbMsgs[m].status # "sent"
                /\ dbMsgs[m].status = "delivered" => dbMsgs[m].deliveredTo # <<>>)

\* one message was sent with B in the registry and delivered to B, another
\* after B had left it and stays 'sent' with no entry
C29_Witness ==
    /\ task["sA1"] = Idle
    /\ lookup("B") = None
    /\ \E m, n \in MsgIds :
          /\ IsMsg(dbMsgs[m]) /\ IsMsg(dbMsgs[n])
          /\ dbMsgs[m].deliveredTo = <<"B">> /\ dbMsgs[m].status = "delivered"
          /\ dbMsgs[n].deliveredTo = <<>> /\ dbMsgs[n].status = "sent"
          /\ Count("sA1", Ev("message-status-update", None, None, m)) = 1
          /\ Count("sA1", Ev("message-status-update", None, None, n)) = 0
          /\ Count("sA1", Ev("new-message", "A", None, n)) = 1

\* the updateMany of a markRead of conversation k by reader takes effect:
\* the messages of k that the reader did not write and that are not 'read'
\* become 'read' with the reader appended to readBy; every other message is
\* unchanged
ReadsMessages(k, reader) ==
    \A m \in MsgIds :
        IF IsMsg(dbMsgs[m]) /\ dbMsgs[m].conv = k /\ dbMsgs[m].sender # reader
           /\ dbMsgs[m].status # "read"
        THEN /\ dbMsgs'[m].status = "read"
             /\ dbMsgs'[m].readBy = Append(dbMsgs[m].readBy, reader)
             /\ dbMsgs'[m].deliveredTo = dbMsgs[m].deliveredTo
        ELSE dbMsgs'[m] = dbMsgs[m]

\* the save of a markRead takes effect: the reader's counter of k is 0 and
\* messages-read reaches the other connections in the room of k
ResetsCounter(k, reader, others) ==
    /\ Unread(dbConv'[k], reader) = 0
    /\ \A t \in others :
          CopiesIn(Ev("messages-read", reader, None, k), inbox'[t])
              = CopiesIn(Ev("messages-read", reader, None, k), inbox[t]) + 1

\* C30: markRead sets every message of the conversation that the reader did
\* not write and that is not yet 'read' to 'read' and appends the reader to its
\* readBy, leaves every other message unchanged, resets the reader's unread
\* counter to 0 and publishes messages-read to the conversation group, over
\* the messages-read event and over markAsRead.
C30_MarkReadEffect ==
    [][/\ \A s \in Sockets : ReadUpdate(s) => ReadsMessages(task[s].conv, userOf(s))
       /\ \A u \in Users, k \in Convs : MarkAsReadUpdate(u, k) => ReadsMessages(k, u)
       /\ \A s \in Sockets :
            ReadSave(s) =>
                ResetsCounter(task[s].conv, userOf(s), Room(task[s].conv) \ {s})
       /\ \A u \in Users :
            MarkAsReadSave(u) => ResetsCounter(rest[u].conv, u, Room(rest[u].conv))]_vars

\* an open connection that a later connection of the same user superseded
Superseded(s) == sock[s] = "open" /\ latest[userOf(s)] # s

\* the copies of event e delivered to the connections of user u
RECURSIVE Copies(_, _)
Copies(S, e) ==
    IF S = {} THEN 0
    ELSE LET s == CHOOSE x \in S : TRUE IN Count(s, e) + Copies(S \ {s}, e)

\* the events a step adds to the inbox of connection t
Arrived(t) == {e \in BagToSet(inbox'[t]) : CopiesIn(e, inbox'[t]) > CopiesIn(e, inbox[t])}

\* the events socket.broadcast.emit sends to every connection
PresenceEvents == {"user-online", "user-offline"}

\* C31: no targeted signal and no conversation event is delivered to a
\* connection once a newer connection of its user has superseded it (the
\* presence broadcasts go to every connection), and a user gets each
\* new-message at most once over all their connections.
C31_SupersededIsOrphaned ==
    /\ [][\A s \in Sockets :
            Superseded(s) => \A e \in Arrived(s) : e.type \in PresenceEvents]_vars
    /\ [](\A u \in Users, m \in MsgIds :
            IsMsg(dbMsgs[m]) =>
                Copies(SocketsOf(u), Ev("new-message", dbMsgs[m].sender, None, m)) <= 1)

\* C32: a send-message that names no stored conversation gives the sending
\* connection an error event and changes nothing else.
C32_UnknownConversationReported ==
    [][\A s \in Sockets :
          SendFindNone(s) =>
              /\ \E e \in BagToSet(inbox'[s]) :
                    e.type = "error" /\ CopiesIn(e, inbox'[s]) = CopiesIn(e, inbox[s]) + 1
              /\ \A t \in Sockets \ {s} : inbox'[t] = inbox[t]
              /\ dbMsgs' = dbMsgs /\ dbConv' = dbConv]_vars

\* the changes of Call.status the call state machine has
CallTransitions ==
    {<<"ringing", "ongoing">>, <<"ringing", "rejected">>, <<"ringing", "missed">>,
     <<"ringing", "ended">>, <<"ongoing", "ended">>}

\* C33: the stored status of a call changes only along ringing -> ongoing,
\* ringing -> rejected, ringing -> missed, ringing -> ended and
\* ongoing -> ended.
C33_CallStatusTransitions ==
    [][\A c \in CallIds :
          (dbCalls[c] # Null /\ dbCalls'[c] # Null
              /\ dbCalls'[c].status # dbCalls[c].status) =>
                  <<dbCalls[c].status, dbCalls'[c].status>> \in CallTransitions]_vars

\* C34: call-user checks and registers in one step.  Naming a registered
\* callee who is in a session, it changes no session, rings nobody and tells
\* the caller the callee is busy; naming one who is in no session, it
\* registers the callee in the session of the call and rings the callee's
\* registered connection once (a registered connection that has closed gets
\* nothing).  Of two call-user events naming the same free callee the second
\* therefore finds the callee busy.
C34_BusyCheckAndSet ==
    [][\A s \in Sockets, b \in Users, c \in CallIds :
          (CallUser(s, b, c) /\ lookup(b) # None) =>
              IF InSession(activeCalls, b) # {}
              THEN /\ activeCalls' = activeCalls
                   /\ CopiesIn(Ev("user-busy", b, c, None), inbox'[s])
                         = CopiesIn(Ev("user-busy", b, c, None), inbox[s]) + 1
                   /\ \A t \in Sockets \ {s} : inbox'[t] = inbox[t]
                   /\ CountType(inbox', s, "incoming-call-signal", c)
                         = CountType(inbox, s, "incoming-call-signal", c)
              ELSE /\ \E i \in IndexOf(activeCalls', c) :
                         b \in activeCalls'[i].participants
                   /\ InSession(activeCalls', b) = IndexOf(activeCalls', c)
                   /\ CountType(inbox', lookup(b), "incoming-call-signal", c)
                         = CountType(inbox, lookup(b), "incoming-call-signal", c)
                             + (IF sock[lookup(b)] = "open" THEN 1 ELSE 0)
                   /\ \A t \in Sockets \ {lookup(b)} : inbox'[t] = inbox[t]]_vars

\* A and C both called B: B is in one session and was rung once, by the first
\* caller; C was told B is busy
C34_Witness ==
    /\ Cardinality(InSession(activeCalls, "B")) = 1
    /\ \E c \in CallIds :
          /\ Count("sB1", Ev("incoming-call-signal", "A", c, None)) = 1
          /\ \A d \in CallIds : Count("sB1", Ev("incoming-call-signal", "C", d, None)) = 0
    /\ \E d \in CallIds : Count("sC1", Ev("user-busy", "B", d, None)) = 1


\* C35: no user is in the participant sets of two different active-session
\* entries, whether the user entered them as caller or as callee.
C35_OneSessionPerUser ==
    \A u \in Users : Cardinality(InSession(activeCalls, u)) <= 1

\* a session of call c that user u conducts on the current connection: u is in
\* the entry of c and the call rang on the connection that is u's latest
ConductsOnLatest(u, c) ==
    /\ \E i \in IndexOf(activeCalls, c) : u \in activeCalls[i].participants
    /\ sock[latest[u]] = "open"
    /\ CountType(inbox, latest[u], "incoming-call-signal", c) > 0

\* a step of the disconnect handler of connection s
CleanupOf(s) == Drop(s) \/ DisconnectCallUpdated(s) \/ DisconnectCallFailed(s)

\* C36: the disconnect handler of a connection that is not its user's latest
\* one (a superseded connection, or a cleanup still in its loop when the user
\* has reconnected) leaves alone the sessions the user conducts on the latest
\* connection: the entry stays in activeCalls and nobody is told that the
\* user ended the call.
C36_StaleCleanupSparesSessions ==
    [][\A s \in Sockets, c \in CallIds :
          (CleanupOf(s) /\ latest[userOf(s)] # s /\ ConductsOnLatest(userOf(s), c)) =>
              /\ \E i \in IndexOf(activeCalls', c) :
                    userOf(s) \in activeCalls'[i].participants
              /\ \A t \in Sockets :
                    Count(t, Ev("call-ended", userOf(s), c, "disconnect"))' =
                    Count(t, Ev("call-ended", userOf(s), c, "disconnect"))]_vars

\* the stored messages of conversation k authored by u whose status is not read
UnreadFrom(k, u) ==
    {m \in MsgIds : /\ IsMsg(dbMsgs[m])
                    /\ dbMsgs[m].conv = k
                    /\ dbMsgs[m].sender = u
                    /\ dbMsgs[m].status # "read"}

\* no send-message or messages-read handler is between two of its awaits
Quiescent == \A s \in Sockets : task[s].pc = "idle"

\* C37: when no handler is in progress, the counter of B in the conversation
\* {A, B} is the number of A's messages that are not read, whatever the
\* interleaving of A's send-message with B's messages-read was.
C37_CounterMatchesUnread ==
    Quiescent => Unread(dbConv["p1"], "B") = Cardinality(UnreadFrom("p1", "A"))

\* the new-message of stored message m
NewMessage(m) == Ev("new-message", dbMsgs[m].sender, None, m)

\* C38: a user has a deliveredTo entry on a message only if the new-message
\* of that message was delivered to a connection of the user.
C38_DeliveredWasSent ==
    \A m \in MsgIds :
        IsMsg(dbMsgs[m]) =>
            \A p \in Range(dbMsgs[m].deliveredTo) : Copies(SocketsOf(p), NewMessage(m)) > 0

\* the events published to conversation rooms
ConvEvents ==
    {"new-message", "message-status-update", "messages-read", "user-typing",
     "user-stopped-typing", "message-reaction", "message-deleted"} \cup ScreenShares

\* the events that name a message
MessageEvents == {"new-message", "message-status-update", "message-reaction",
                  "message-deleted"}

\* the conversations of the handlers that hold message m between two of
\* their steps
Holding(m) ==
    {task[s].conv : s \in {t \in Sockets : "msg" \in DOMAIN task[t] /\ task[t].msg = m}}
        \cup {rest[u].conv : u \in {v \in Users : "msg" \in DOMAIN rest[v]
                                                   /\ rest[v].msg = m}}

\* the conversation an event of a room is about: the one the publishing
\* handler names the room with, whatever the store still holds (none for an
\* event sent to a call room)
ConvOf(e) ==
    IF e.type \notin MessageEvents THEN e.x
    ELSE IF Holding(e.x) = {} THEN None
    ELSE CHOOSE k \in Holding(e.x) : TRUE

\* C39: an event of a conversation is delivered only to connections of users
\* who are participants of the conversation when it is published.
C39_OnlyParticipantsReceive ==
    [][\A t \in Sockets : \A e \in Arrived(t) :
          (e.type \in ConvEvents /\ ConvOf(e) \in Convs) =>
              /\ Stored(ConvOf(e))
              /\ userOf(t) \in dbConv[ConvOf(e)].participants]_vars
====
